---- MODULE Spec2Model ----
(***************************************************************************)
(* Verification model of the FundedNext EURUSD trading bot:                *)
(*   core/compliance.py   ComplianceEngine (risk state machine)            *)
(*   core/risk.py         position sizing and SL/TP geometry check         *)
(*   broker/mt5_gateway.py DryRunGateway (simulated execution)             *)
(*   main.py              run_backtest and run_cycle drivers               *)
(*                                                                         *)
(* Units.  Money is in cents, prices and price distances in points         *)
(* (1 point = 0.00001, 1 pip = 10 points), lot sizes in lot steps of 0.01  *)
(* lot, risk percentages in thousandths of a percent.  Percentages that    *)
(* the code computes by a float division are compared by cross             *)
(* multiplication, so every comparison is exact.  Calendar days are day    *)
(* numbers.                                                                *)
(***************************************************************************)
EXTENDS Integers, Sequences, FiniteSets, TLC

VARIABLES
    eng,        \* the ComplianceEngine object
    gw,         \* the DryRunGateway object
    drv,        \* the driver's locals (run_backtest loop / run_cycle state dict)
    cfg,        \* cfg["trade_management"] and cfg["session"] switches
    wall_day,   \* the wall clock's UTC date, datetime.now(timezone.utc).date()
    call        \* the last operation, its arguments and what it returned

vars == <<eng, gw, drv, cfg, wall_day, call>>

\* ------------------------------------------------------------------------
\* Configuration (config.yaml is read through these keys)
\* ------------------------------------------------------------------------
initial_balance == 10000
max_daily_loss_pct == 5
max_total_dd_pct == 10
trailing_dd_enabled == TRUE
trailing_dd_pct == 6
max_consec_losses == 3
max_trades_per_day == 1
reduce_risk_after == 2
risk_pct_normal == 1000
risk_pct_reduced == 500
max_spread == 20
dd_tier1_pct == 3
dd_tier2_pct == 5
dd_tier2_factor_tenths == 4
weekly_pause_risk == 250

\* ------------------------------------------------------------------------
\* Bounds of the model
\* ------------------------------------------------------------------------
MaxDay == 2          \* bar dates are 1..MaxDay; the wall clock starts at MaxDay
MaxTradesToday == 2  \* cap of trades_today in the engine-level specification
MaxLossStreak == 3   \* cap of consec_losses in the engine-level specification
PnlCap == 600        \* cap of |today_closed_pnl| in the engine-level specification

Max(a, b) == IF a >= b THEN a ELSE b
Min(a, b) == IF a <= b THEN a ELSE b

RiskState == {"NORMAL", "REDUCED", "DAILY_PAUSE", "WEEKLY_PAUSE", "KILL_SWITCH"}

\* ------------------------------------------------------------------------
\* ComplianceEngine
\* ------------------------------------------------------------------------
\* __init__: the state after construction; current_day is the wall-clock date.
ComplianceEngine(today) ==
    [ state            |-> "NORMAL",
      consec_losses    |-> 0,
      trades_today     |-> 0,
      today_closed_pnl |-> 0,
      prev_eod_balance |-> initial_balance,
      high_water_mark  |-> initial_balance,
      last_equity      |-> initial_balance,
      current_day      |-> today ]

\* advance_time with the rollover resetting the state whatever it is.
advance_time_resets_kill(e, bar_day, balance) ==
    IF bar_day # e.current_day
    THEN [e EXCEPT !.prev_eod_balance = balance,
                   !.today_closed_pnl = 0,
                   !.trades_today = 0,
                   !.consec_losses = 0,
                   !.current_day = bar_day,
                   !.state = "NORMAL"]
    ELSE e

\* advance_time with the loss streak carried over the rollover.
advance_time_keeps_streak(e, bar_day, balance) ==
    IF bar_day # e.current_day
    THEN [e EXCEPT !.prev_eod_balance = balance,
                   !.today_closed_pnl = 0,
                   !.trades_today = 0,
                   !.current_day = bar_day,
                   !.state = IF e.state # "KILL_SWITCH" THEN "NORMAL" ELSE e.state]
    ELSE e

\* The date advance_time compares with current_day: bar_time.date() for a
\* naive timestamp, bar_time.astimezone(timezone.utc).date() otherwise. A
\* timestamp is its calendar date, its hour, whether it has a tzinfo and its UTC
\* offset in hours.
bar_time_date(bar_time) ==
    IF ~bar_time.tzinfo THEN bar_time.date
    ELSE bar_time.date + ((bar_time.hour - bar_time.utcoffset) \div 24)

\* advance_time(bar_time, balance); bar_day is bar_time's UTC date.
advance_time(e, bar_day, balance) ==
    IF bar_day # e.current_day
    THEN [e EXCEPT !.prev_eod_balance = balance,
                   !.today_closed_pnl = 0,
                   !.trades_today = 0,
                   !.consec_losses = 0,
                   !.current_day = bar_day,
                   !.state = IF e.state # "KILL_SWITCH" THEN "NORMAL" ELSE e.state]
    ELSE e

\* _check_new_day_realtime(balance); today is the wall clock's UTC date.
check_new_day_realtime(e, today, balance) ==
    IF today # e.current_day
    THEN [e EXCEPT !.prev_eod_balance = balance,
                   !.today_closed_pnl = 0,
                   !.trades_today = 0,
                   !.consec_losses = 0,
                   !.current_day = today,
                   !.state = IF e.state # "KILL_SWITCH" THEN "NORMAL" ELSE e.state]
    ELSE e

\* get_total_dd_pct(equity) >= pct, with the division multiplied out.
TotalDdAtLeast(equity, pct) ==
    IF initial_balance <= 0
    THEN 0 >= pct
    ELSE Max(0, (initial_balance - equity) * 100) >= pct * initial_balance

\* get_daily_pnl(equity, balance)
get_daily_pnl(e, equity, balance) == e.today_closed_pnl + (equity - balance)

\* Drawdown of equity from the high-water mark >= pct.
PeakDdAtLeast(hwm, equity, pct) == (hwm - equity) * 100 >= pct * hwm

\* _update_state with the daily-loss check placed before the trailing check.
update_state_daily_first(e, balance, equity) ==
    LET hwm == IF balance > e.high_water_mark THEN balance ELSE e.high_water_mark
        e1 == [e EXCEPT !.last_equity = equity, !.high_water_mark = hwm]
        daily_breach == get_daily_pnl(e1, equity, balance) * 100
                            < -(e1.prev_eod_balance * max_daily_loss_pct)
    IN  IF TotalDdAtLeast(equity, max_total_dd_pct)
          THEN [e1 EXCEPT !.state = "KILL_SWITCH"]
        ELSE IF daily_breach
          THEN [e1 EXCEPT !.state = "DAILY_PAUSE"]
        ELSE IF trailing_dd_enabled /\ hwm > 0
                 /\ PeakDdAtLeast(hwm, equity, trailing_dd_pct)
          THEN [e1 EXCEPT !.state = "WEEKLY_PAUSE"]
        ELSE IF e1.trades_today >= max_trades_per_day
          THEN [e1 EXCEPT !.state = "DAILY_PAUSE"]
        ELSE IF e1.consec_losses >= max_consec_losses
          THEN [e1 EXCEPT !.state = "DAILY_PAUSE"]
        ELSE IF e1.consec_losses >= reduce_risk_after
          THEN [e1 EXCEPT !.state = "REDUCED"]
        ELSE [e1 EXCEPT !.state = "NORMAL"]

\* _update_state(balance, equity)
update_state(e, balance, equity) ==
    LET hwm == IF balance > e.high_water_mark THEN balance ELSE e.high_water_mark
        e1 == [e EXCEPT !.last_equity = equity, !.high_water_mark = hwm]
        \* daily_pnl < -daily_limit, daily_limit = prev_eod_balance * pct / 100
        daily_breach == get_daily_pnl(e1, equity, balance) * 100
                            < -(e1.prev_eod_balance * max_daily_loss_pct)
    IN  IF TotalDdAtLeast(equity, max_total_dd_pct)
          THEN [e1 EXCEPT !.state = "KILL_SWITCH"]
        ELSE IF trailing_dd_enabled /\ hwm > 0
                 /\ PeakDdAtLeast(hwm, equity, trailing_dd_pct)
          THEN [e1 EXCEPT !.state = "WEEKLY_PAUSE"]
        ELSE IF daily_breach
          THEN [e1 EXCEPT !.state = "DAILY_PAUSE"]
        ELSE IF e1.trades_today >= max_trades_per_day
          THEN [e1 EXCEPT !.state = "DAILY_PAUSE"]
        ELSE IF e1.consec_losses >= max_consec_losses
          THEN [e1 EXCEPT !.state = "DAILY_PAUSE"]
        ELSE IF e1.consec_losses >= reduce_risk_after
          THEN [e1 EXCEPT !.state = "REDUCED"]
        ELSE [e1 EXCEPT !.state = "NORMAL"]

\* rule_check with WEEKLY_PAUSE blocking like DAILY_PAUSE.
rule_check_weekly_blocks(e, today, balance, equity, spread) ==
    LET e1 == check_new_day_realtime(e, today, balance)
        e2 == update_state(e1, balance, equity)
        reason == IF e2.state = "KILL_SWITCH" THEN "KILL_SWITCH"
                  ELSE IF e2.state = "DAILY_PAUSE" THEN "DAILY_PAUSE"
                  ELSE IF e2.state = "WEEKLY_PAUSE" THEN "WEEKLY_PAUSE"
                  ELSE IF e2.trades_today >= max_trades_per_day THEN "MAX_TRADES_DAY"
                  ELSE IF spread > max_spread THEN "SPREAD_HIGH"
                  ELSE ""
    IN  [eng |-> e2, reason |-> reason]

\* rule_check(balance, equity, spread_pips): the engine after the call and the
\* returned reason ("" allows the trade; the reason is kept by its prefix).
rule_check(e, today, balance, equity, spread) ==
    LET e1 == check_new_day_realtime(e, today, balance)
        e2 == update_state(e1, balance, equity)
        reason == IF e2.state = "KILL_SWITCH" THEN "KILL_SWITCH"
                  ELSE IF e2.state = "DAILY_PAUSE" THEN "DAILY_PAUSE"
                  ELSE IF e2.trades_today >= max_trades_per_day THEN "MAX_TRADES_DAY"
                  ELSE IF spread > max_spread THEN "SPREAD_HIGH"
                  ELSE ""
    IN  [eng |-> e2, reason |-> reason]

\* on_trade_opened()
on_trade_opened(e) == [e EXCEPT !.trades_today = @ + 1]

\* on_trade_closed taking the balance of the call as the high-water mark.
on_trade_closed_tracks_balance(e, pnl, balance) ==
    [e EXCEPT !.today_closed_pnl = @ + pnl,
              !.consec_losses = IF pnl < 0 THEN @ + 1
                                ELSE IF pnl > 0 THEN 0 ELSE @,
              !.high_water_mark = balance]

\* on_trade_closed(pnl, balance)
on_trade_closed(e, pnl, balance) ==
    [e EXCEPT !.today_closed_pnl = @ + pnl,
              !.consec_losses = IF pnl < 0 THEN @ + 1
                                ELSE IF pnl > 0 THEN 0 ELSE @,
              !.high_water_mark = IF balance > @ THEN balance ELSE @]

\* get_risk_percent(), in thousandths of a percent.
get_risk_percent(e) ==
    IF e.state = "KILL_SWITCH" THEN 0
    ELSE IF e.state = "WEEKLY_PAUSE" THEN weekly_pause_risk
    ELSE
      LET risk == IF e.state = "REDUCED" THEN risk_pct_reduced ELSE risk_pct_normal
      IN  IF e.last_equity > 0 /\ e.high_water_mark > 0
          THEN IF PeakDdAtLeast(e.high_water_mark, e.last_equity, dd_tier2_pct)
                 THEN Min(risk, (risk_pct_reduced * dd_tier2_factor_tenths) \div 10)
               ELSE IF PeakDdAtLeast(e.high_water_mark, e.last_equity, dd_tier1_pct)
                 THEN Min(risk, risk_pct_reduced)
               ELSE risk
          ELSE risk

\* ------------------------------------------------------------------------
\* core/risk.py
\* ------------------------------------------------------------------------
pip_value_per_lot == 10      \* dollars per pip per standard lot
min_lot == 1                 \* 0.01 lot
max_lot == 10000             \* 100.0 lots

\* "lots = int(lots / lot_step) * lot_step" is evaluated in binary floating
\* point.  Where lots is a whole number k of lot steps, the double k * 0.01
\* divided by the double 0.01 is just below k for the k listed here (all such
\* k up to 200), and int() then yields k - 1.
FloatTruncatesDown == {29, 47, 57, 58, 59, 94, 113, 114, 115, 116, 117, 118, 119, 188}

\* int(lots / lot_step) for lots = n / d lot steps.
int_lot_steps(n, d) ==
    LET k == n \div d
    IN  IF n % d = 0 /\ k \in FloatTruncatesDown THEN k - 1 ELSE k

\* The sizing with the pip value taken per 0.1 lot: ten times fewer lots.
calculate_lot_size_per_mini_lot(balance, risk_pct, sl_pips) ==
    IF sl_pips <= 0 \/ balance <= 0 \/ risk_pct <= 0
    THEN 0
    ELSE Max(min_lot,
             Min(max_lot, int_lot_steps(balance * risk_pct,
                                        10 * 10000 * sl_pips * pip_value_per_lot)))

\* The sizing with degenerate inputs clamped to min_lot instead of returned
\* as zero.
calculate_lot_size_always_clamped(balance, risk_pct, sl_pips) ==
    IF sl_pips <= 0 \/ balance <= 0 \/ risk_pct <= 0
    THEN min_lot
    ELSE Max(min_lot,
             Min(max_lot, int_lot_steps(balance * risk_pct,
                                        10000 * sl_pips * pip_value_per_lot)))

\* calculate_lot_size(balance, risk_pct, sl_pips, pip_value_per_lot), in lot
\* steps of 0.01: balance in cents, risk_pct in thousandths of a percent,
\* sl_pips in points.  lots = risk_dollars / (sl_pips * pip_value), truncated
\* to the lot step, clamped to [min_lot, max_lot].
calculate_lot_size(balance, risk_pct, sl_pips) ==
    IF sl_pips <= 0 \/ balance <= 0 \/ risk_pct <= 0
    THEN 0
    ELSE Max(min_lot,
             Min(max_lot, int_lot_steps(balance * risk_pct,
                                        10000 * sl_pips * pip_value_per_lot)))

\* validate_sl_tp(entry, sl, tp, direction)
validate_sl_tp(entry, sl, tp, direction) ==
    IF direction > 0 THEN sl < entry /\ entry < tp
    ELSE IF direction < 0 THEN tp < entry /\ entry < sl
    ELSE FALSE

\* ------------------------------------------------------------------------
\* DryRunGateway
\* ------------------------------------------------------------------------
pip_size == 10               \* one pip in points
spread_pips == 10            \* backtest.spread_pips, 1.0 pip
slippage_pips == 5           \* backtest.slippage_pips, 0.5 pip
first_ticket == 1000

\* __init__ followed by connect()
DryRunGateway ==
    [ balance       |-> initial_balance,
      equity        |-> initial_balance,
      positions     |-> <<>>,
      next_ticket   |-> first_ticket,
      trade_history |-> <<>>,
      connected     |-> TRUE,
      last_ask      |-> 0,
      last_bid      |-> 0 ]

\* update_price(bid): the ask is the bid plus the configured spread.
update_price(g, bid) ==
    [g EXCEPT !.last_bid = bid, !.last_ask = bid + spread_pips]

has_position(g) == Len(g.positions) > 0

\* _calc_pnl_at(pos, exit_price, lots), in cents:
\* pips * pip_value_per_lot * lots = points/10 * dollars/lot * steps/100.
calc_pnl_at(pos, exit_price, lots) ==
    LET points == IF pos.direction > 0 THEN exit_price - pos.entry
                  ELSE pos.entry - exit_price
    IN  (points * pip_value_per_lot * lots) \div 10

\* _calc_pnl(pos, exit_price)
calc_pnl(pos, exit_price) == calc_pnl_at(pos, exit_price, pos.lots)

RECURSIVE SumFloating(_, _)
SumFloating(g, ps) ==
    IF ps = <<>> THEN 0
    ELSE LET pos == Head(ps)
             cur == IF pos.direction > 0 THEN g.last_bid ELSE g.last_ask
         IN  calc_pnl(pos, cur) + SumFloating(g, Tail(ps))

\* _update_equity()
update_equity(g) == [g EXCEPT !.equity = g.balance + SumFloating(g, g.positions)]

\* get_account_info(): the gateway after _update_equity; the AccountInfo is its
\* balance and equity (already whole cents).
get_account_info(g) == update_equity(g)

\* The ledger row _record_close and _record_partial_close append; now is the
\* wall clock (datetime.now) at the moment of the call, open_time the wall
\* clock at which the Position was constructed.
TradeRecord(pos, exit_price, pnl, lots, reason, now) ==
    [ ticket |-> pos.ticket, direction |-> pos.direction, entry |-> pos.entry,
      exit |-> exit_price, sl |-> pos.sl, tp |-> pos.tp, lots |-> lots,
      pnl |-> pnl, reason |-> reason,
      open_time |-> pos.open_time, close_time |-> now ]

\* open_trade(direction, lots, sl, tp): the gateway after the call and the
\* TradeResult.  Position.open_time defaults to the wall clock, now.
open_trade(g, direction, lots, sl, tp, now) ==
    IF lots <= 0
    THEN [gw |-> g, success |-> FALSE, ticket |-> 0, price |-> 0]
    ELSE LET fill_price == IF direction > 0 THEN g.last_ask + slippage_pips
                           ELSE g.last_bid - slippage_pips
             diff == fill_price - sl
             pos == [ ticket |-> g.next_ticket, direction |-> direction,
                      entry |-> fill_price, sl |-> sl, tp |-> tp, lots |-> lots,
                      sl_pips |-> IF diff >= 0 THEN diff ELSE -diff,
                      be_activated |-> FALSE, partial_closed |-> FALSE,
                      open_time |-> now ]
         IN  [gw |-> [g EXCEPT !.next_ticket = @ + 1,
                               !.positions = Append(@, pos)],
              success |-> TRUE, ticket |-> g.next_ticket, price |-> fill_price]

HasTicket(g, ticket) == \E k \in 1..Len(g.positions) : g.positions[k].ticket = ticket

PosOf(g, ticket) ==
    g.positions[CHOOSE k \in 1..Len(g.positions) : g.positions[k].ticket = ticket]

RemoveTicket(ps, ticket) == SelectSeq(ps, LAMBDA p : p.ticket # ticket)

ReplacePos(ps, pos) ==
    [k \in 1..Len(ps) |-> IF ps[k].ticket = pos.ticket THEN pos ELSE ps[k]]

\* modify_sl(ticket, new_sl)
modify_sl(g, ticket, new_sl) ==
    IF HasTicket(g, ticket)
    THEN [g EXCEPT !.positions = ReplacePos(@, [PosOf(g, ticket) EXCEPT !.sl = new_sl])]
    ELSE g

\* close_position(ticket, reason)
close_position(g, ticket, reason, now) ==
    IF ~HasTicket(g, ticket) THEN g
    ELSE LET pos == PosOf(g, ticket)
             exit_price == IF pos.direction > 0 THEN g.last_bid ELSE g.last_ask
             pnl == calc_pnl(pos, exit_price)
         IN  [g EXCEPT !.balance = @ + pnl,
                       !.trade_history =
                           Append(@, TradeRecord(pos, exit_price, pnl, pos.lots, reason, now)),
                       !.positions = RemoveTicket(@, ticket)]

RECURSIVE CloseEach(_, _, _, _)
CloseEach(g, ps, reason, now) ==
    IF ps = <<>> THEN g
    ELSE CloseEach(close_position(g, Head(ps).ticket, reason, now), Tail(ps), reason, now)

\* close_all(reason)
close_all(g, reason, now) == CloseEach(g, g.positions, reason, now)

\* cancel_pending(reason): no pending orders exist in the dry-run gateway.
cancel_pending(g, reason) == g

\* ------------------------------------------------------------------------
\* Trade management (cfg["trade_management"]); R multiples are in tenths
\* ------------------------------------------------------------------------
partial_close_r == 10        \* 1.0 R, the default of tm.get("partial_close_r", 1.0)
partial_close_pct == 50
breakeven_r == 10            \* 1.0 R
trailing_start_r == 15       \* 1.5 R
trailing_atr_mult == 15      \* 1.5 ATR

\* round(pos.lots * pc_pct, 2) in lot steps.  An exact half is rounded by the
\* float's binary value: of the odd sizes up to 0.11 lot at 50%, 0.01, 0.05,
\* 0.07 and 0.11 round up and 0.03 and 0.09 round down.
HalfRoundsUp == {1, 5, 7, 11}

close_lots_of(lots, pct) ==
    LET n == lots * pct
        q == n \div 100
        r == n % 100
    IN  IF r > 50 THEN q + 1
        ELSE IF r < 50 THEN q
        ELSE IF lots \in HalfRoundsUp THEN q + 1 ELSE q

\* The partial-close step leaving the stop at the entry price.
partial_close_step_stop_at_entry(g, pos, bar, c, now) ==
    IF ~pos.partial_closed /\ pos.sl_pips > 0 /\ c.partial_close_enabled
    THEN LET pc_dist == (pos.sl_pips * c.partial_close_r) \div 10
             pc_target == IF pos.direction > 0 THEN pos.entry + pc_dist
                          ELSE pos.entry - pc_dist
             pc_hit == IF pos.direction > 0
                       THEN bar.high * 10 >= pos.entry * 10 + pos.sl_pips * c.partial_close_r
                       ELSE bar.low * 10 <= pos.entry * 10 - pos.sl_pips * c.partial_close_r
             close_lots == close_lots_of(pos.lots, partial_close_pct)
             remain_lots == pos.lots - close_lots
             pc_pnl == calc_pnl_at(pos, pc_target, close_lots)
         IN  IF pc_hit /\ close_lots > 0 /\ remain_lots > 0
             THEN [gw |-> [g EXCEPT !.balance = @ + pc_pnl,
                                    !.trade_history =
                                        Append(@, TradeRecord(pos, pc_target, pc_pnl,
                                                              close_lots, "PARTIAL_1R", now))],
                   pos |-> [pos EXCEPT !.lots = remain_lots,
                                       !.partial_closed = TRUE,
                                       !.sl = pos.entry,
                                       !.be_activated = TRUE]]
             ELSE [gw |-> g, pos |-> pos]
    ELSE [gw |-> g, pos |-> pos]

\* The partial-close step without the partial_closed mark.
partial_close_step_unmarked(g, pos, bar, c, now) ==
    IF ~pos.partial_closed /\ pos.sl_pips > 0 /\ c.partial_close_enabled
    THEN LET pc_dist == (pos.sl_pips * c.partial_close_r) \div 10
             pc_target == IF pos.direction > 0 THEN pos.entry + pc_dist
                          ELSE pos.entry - pc_dist
             pc_hit == IF pos.direction > 0
                       THEN bar.high * 10 >= pos.entry * 10 + pos.sl_pips * c.partial_close_r
                       ELSE bar.low * 10 <= pos.entry * 10 - pos.sl_pips * c.partial_close_r
             close_lots == close_lots_of(pos.lots, partial_close_pct)
             remain_lots == pos.lots - close_lots
             pc_pnl == calc_pnl_at(pos, pc_target, close_lots)
         IN  IF pc_hit /\ close_lots > 0 /\ remain_lots > 0
             THEN [gw |-> [g EXCEPT !.balance = @ + pc_pnl,
                                    !.trade_history =
                                        Append(@, TradeRecord(pos, pc_target, pc_pnl,
                                                              close_lots, "PARTIAL_1R", now))],
                   pos |-> [pos EXCEPT !.lots = remain_lots,
                                       !.sl = IF pos.direction > 0
                                              THEN pos.entry + pip_size
                                              ELSE pos.entry - pip_size,
                                       !.be_activated = TRUE]]
             ELSE [gw |-> g, pos |-> pos]
    ELSE [gw |-> g, pos |-> pos]

\* check_sl_tp, partial-close step for one position: the gateway and the
\* position after it.
partial_close_step(g, pos, bar, c, now) ==
    IF ~pos.partial_closed /\ pos.sl_pips > 0 /\ c.partial_close_enabled
    THEN LET pc_dist == (pos.sl_pips * c.partial_close_r) \div 10
             pc_target == IF pos.direction > 0 THEN pos.entry + pc_dist
                          ELSE pos.entry - pc_dist
             pc_hit == IF pos.direction > 0
                       THEN bar.high * 10 >= pos.entry * 10 + pos.sl_pips * c.partial_close_r
                       ELSE bar.low * 10 <= pos.entry * 10 - pos.sl_pips * c.partial_close_r
             close_lots == close_lots_of(pos.lots, partial_close_pct)
             remain_lots == pos.lots - close_lots
             pc_pnl == calc_pnl_at(pos, pc_target, close_lots)
         IN  IF pc_hit /\ close_lots > 0 /\ remain_lots > 0
             THEN [gw |-> [g EXCEPT !.balance = @ + pc_pnl,
                                    !.trade_history =
                                        Append(@, TradeRecord(pos, pc_target, pc_pnl,
                                                              close_lots, "PARTIAL_1R", now))],
                   pos |-> [pos EXCEPT !.lots = remain_lots,
                                       !.partial_closed = TRUE,
                                       !.sl = IF pos.direction > 0
                                              THEN pos.entry + pip_size
                                              ELSE pos.entry - pip_size,
                                       !.be_activated = TRUE]]
             ELSE [gw |-> g, pos |-> pos]
    ELSE [gw |-> g, pos |-> pos]

\* The breakeven step moving the stop to the entry price itself.
breakeven_step_to_entry(pos, bar, c) ==
    IF ~pos.be_activated /\ c.breakeven_enabled /\ pos.sl_pips > 0
    THEN IF pos.direction > 0
         THEN IF bar.high * 10 >= pos.entry * 10 + pos.sl_pips * breakeven_r
                 /\ pos.entry + pip_size > pos.sl
              THEN [pos EXCEPT !.sl = pos.entry, !.be_activated = TRUE]
              ELSE pos
         ELSE IF bar.low * 10 <= pos.entry * 10 - pos.sl_pips * breakeven_r
                 /\ pos.entry - pip_size < pos.sl
              THEN [pos EXCEPT !.sl = pos.entry, !.be_activated = TRUE]
              ELSE pos
    ELSE pos

\* check_sl_tp, breakeven step for one position.
breakeven_step(pos, bar, c) ==
    IF ~pos.be_activated /\ c.breakeven_enabled /\ pos.sl_pips > 0
    THEN IF pos.direction > 0
         THEN IF bar.high * 10 >= pos.entry * 10 + pos.sl_pips * breakeven_r
                 /\ pos.entry + pip_size > pos.sl
              THEN [pos EXCEPT !.sl = pos.entry + pip_size, !.be_activated = TRUE]
              ELSE pos
         ELSE IF bar.low * 10 <= pos.entry * 10 - pos.sl_pips * breakeven_r
                 /\ pos.entry - pip_size < pos.sl
              THEN [pos EXCEPT !.sl = pos.entry - pip_size, !.be_activated = TRUE]
              ELSE pos
    ELSE pos

\* The trailing step not waiting for breakeven.
trailing_step_before_breakeven(pos, bar, c) ==
    IF c.trailing_enabled /\ bar.atr > 0 /\ pos.sl_pips > 0
    THEN LET trail_atr == (bar.atr * trailing_atr_mult) \div 10
         IN  IF pos.direction > 0
             THEN LET new_sl == bar.high - trail_atr
                  IN  IF bar.high * 10 >= pos.entry * 10 + pos.sl_pips * trailing_start_r
                         /\ new_sl > pos.sl /\ new_sl > pos.entry
                      THEN [pos EXCEPT !.sl = new_sl]
                      ELSE pos
             ELSE LET new_sl == bar.low + trail_atr
                  IN  IF bar.low * 10 <= pos.entry * 10 - pos.sl_pips * trailing_start_r
                         /\ new_sl < pos.sl /\ new_sl < pos.entry
                      THEN [pos EXCEPT !.sl = new_sl]
                      ELSE pos
    ELSE pos

\* check_sl_tp, trailing-stop step for one position.
trailing_step(pos, bar, c) ==
    IF pos.be_activated /\ c.trailing_enabled /\ bar.atr > 0 /\ pos.sl_pips > 0
    THEN LET trail_atr == (bar.atr * trailing_atr_mult) \div 10
         IN  IF pos.direction > 0
             THEN LET new_sl == bar.high - trail_atr
                  IN  IF bar.high * 10 >= pos.entry * 10 + pos.sl_pips * trailing_start_r
                         /\ new_sl > pos.sl /\ new_sl > pos.entry
                      THEN [pos EXCEPT !.sl = new_sl]
                      ELSE pos
             ELSE LET new_sl == bar.low + trail_atr
                  IN  IF bar.low * 10 <= pos.entry * 10 - pos.sl_pips * trailing_start_r
                         /\ new_sl < pos.sl /\ new_sl < pos.entry
                      THEN [pos EXCEPT !.sl = new_sl]
                      ELSE pos
    ELSE pos

\* The fills for which a stop exactly 3 pips beyond entry compares below ps * 3:
\* ps * 3 is the double 0.00030000000000000003, and the difference of the two
\* doubles is 0.00029999999999996696 for the short fill 1.09995 with stop
\* 1.09965 and for the long fill 1.10015 with stop 1.10045.
ThreePipsComparesBelow == {109995, 110015}

\* abs(pos.sl - pos.entry) < ps * 3, as the doubles compare.
stop_near_entry(pos) ==
    LET d == pos.sl - pos.entry
        dist == IF d >= 0 THEN d ELSE -d
    IN  dist < pip_size * 3
          \/ (dist = pip_size * 3 /\ pos.entry \in ThreePipsComparesBelow)

\* The exit check with the target tested before the stop.
exit_check_target_first(pos, bar) ==
    LET stop_reason == IF pos.be_activated
                      THEN IF stop_near_entry(pos) THEN "BE_HIT" ELSE "TRAIL_HIT"
                      ELSE "SL_HIT"
    IN  IF pos.direction > 0
        THEN IF bar.high >= pos.tp
               THEN [hit |-> TRUE, exit_price |-> pos.tp, reason |-> "TP_HIT"]
             ELSE IF bar.low <= pos.sl
               THEN [hit |-> TRUE, exit_price |-> pos.sl, reason |-> stop_reason]
             ELSE [hit |-> FALSE, exit_price |-> 0, reason |-> ""]
        ELSE IF bar.low <= pos.tp
               THEN [hit |-> TRUE, exit_price |-> pos.tp, reason |-> "TP_HIT"]
             ELSE IF bar.high >= pos.sl
               THEN [hit |-> TRUE, exit_price |-> pos.sl, reason |-> stop_reason]
             ELSE [hit |-> FALSE, exit_price |-> 0, reason |-> ""]

\* check_sl_tp, exit check for one position: hit, exit price and reason.
exit_check(pos, bar) ==
    LET stop_reason == IF pos.be_activated
                      THEN IF stop_near_entry(pos) THEN "BE_HIT" ELSE "TRAIL_HIT"
                      ELSE "SL_HIT"
    IN  IF pos.direction > 0
        THEN IF bar.low <= pos.sl
               THEN [hit |-> TRUE, exit_price |-> pos.sl, reason |-> stop_reason]
             ELSE IF bar.high >= pos.tp
               THEN [hit |-> TRUE, exit_price |-> pos.tp, reason |-> "TP_HIT"]
             ELSE [hit |-> FALSE, exit_price |-> 0, reason |-> ""]
        ELSE IF bar.high >= pos.sl
               THEN [hit |-> TRUE, exit_price |-> pos.sl, reason |-> stop_reason]
             ELSE IF bar.low <= pos.tp
               THEN [hit |-> TRUE, exit_price |-> pos.tp, reason |-> "TP_HIT"]
             ELSE [hit |-> FALSE, exit_price |-> 0, reason |-> ""]

\* The loop body with the exit check looking at the stop the bar began with.
check_one_exit_on_old_stop(g, pos0, bar, c, now) ==
    LET pc == partial_close_step(g, pos0, bar, c, now)
        pos1 == breakeven_step(pc.pos, bar, c)
        pos2 == trailing_step(pos1, bar, c)
        x == exit_check([pos2 EXCEPT !.sl = pos0.sl], bar)
        pnl == calc_pnl(pos2, x.exit_price)
    IN  IF x.hit
        THEN [pc.gw EXCEPT !.balance = @ + pnl,
                           !.trade_history =
                               Append(@, TradeRecord(pos2, x.exit_price, pnl,
                                                     pos2.lots, x.reason, now)),
                           !.positions = RemoveTicket(@, pos2.ticket)]
        ELSE [pc.gw EXCEPT !.positions = ReplacePos(@, pos2)]

\* check_sl_tp, the loop body for one ticket.
check_one(g, pos0, bar, c, now) ==
    LET pc == partial_close_step(g, pos0, bar, c, now)
        pos1 == breakeven_step(pc.pos, bar, c)
        pos2 == trailing_step(pos1, bar, c)
        x == exit_check(pos2, bar)
        pnl == calc_pnl(pos2, x.exit_price)
    IN  IF x.hit
        THEN [pc.gw EXCEPT !.balance = @ + pnl,
                           !.trade_history =
                               Append(@, TradeRecord(pos2, x.exit_price, pnl,
                                                     pos2.lots, x.reason, now)),
                           !.positions = RemoveTicket(@, pos2.ticket)]
        ELSE [pc.gw EXCEPT !.positions = ReplacePos(@, pos2)]

RECURSIVE CheckEach(_, _, _, _, _)
CheckEach(g, ps, bar, c, now) ==
    IF ps = <<>> THEN g
    ELSE CheckEach(check_one(g, Head(ps), bar, c, now), Tail(ps), bar, c, now)

\* check_sl_tp(bar, cfg)
check_sl_tp(g, bar, c, now) == CheckEach(g, g.positions, bar, c, now)

\* ------------------------------------------------------------------------
\* Specification Spec: the ComplianceEngine under any sequence of calls
\* ------------------------------------------------------------------------
Balances == {10000, 10400}
Equities == {8900, 9400, 9700, 10000}
Spreads == {10, 30}
Pnls == {-300, 0, 300}

\* get_signal returned None.
NoSignal == [none |-> TRUE, direction |-> 0, entry |-> 0, sl |-> 0, tp |-> 0, sl_pips |-> 0]

NoCall == [op |-> "init", balance |-> 0, equity |-> 0, spread |-> 0, pnl |-> 0,
           day |-> 0, rolled |-> FALSE, ret |-> "", risk |-> 0,
           sl_pips |-> 0, lots |-> 0, outcome |-> "",
           london |-> FALSE, ask |-> 0, bid |-> 0, signal |-> NoSignal,
           diag |-> <<>>,
           bar_time |-> [date |-> 0, hour |-> 0, tzinfo |-> FALSE, utcoffset |-> 0]]

NoDriver == [mode |-> "none"]

TradeManagement(pc, be, tr) ==
    [partial_close_enabled |-> pc, breakeven_enabled |-> be, trailing_enabled |-> tr,
     partial_close_r |-> partial_close_r]

Init ==
    /\ wall_day = MaxDay
    /\ eng = ComplianceEngine(wall_day)
    /\ gw = DryRunGateway
    /\ drv = NoDriver
    /\ cfg = TradeManagement(FALSE, TRUE, TRUE)
    /\ call = NoCall

\* The wall clock passes midnight UTC.
WallTick ==
    /\ wall_day < MaxDay + 1
    /\ wall_day' = wall_day + 1
    /\ call' = [NoCall EXCEPT !.op = "wall_tick"]
    /\ UNCHANGED <<eng, gw, drv, cfg>>

AdvanceTime ==
    \E d \in 1..(MaxDay + 1), b \in Balances :
        /\ eng' = advance_time(eng, d, b)
        /\ call' = [NoCall EXCEPT !.op = "advance_time", !.day = d, !.balance = b,
                                  !.rolled = (d # eng.current_day)]
        /\ UNCHANGED <<gw, drv, cfg, wall_day>>

RuleCheck ==
    \E b \in Balances, q \in Equities, sp \in Spreads :
        LET r == rule_check(eng, wall_day, b, q, sp)
        IN  /\ eng' = r.eng
            /\ call' = [NoCall EXCEPT !.op = "rule_check", !.balance = b, !.equity = q,
                                      !.spread = sp, !.ret = r.reason,
                                      !.rolled = (wall_day # eng.current_day)]
            /\ UNCHANGED <<gw, drv, cfg, wall_day>>

OnTradeOpened ==
    /\ eng.trades_today < MaxTradesToday
    /\ eng' = on_trade_opened(eng)
    /\ call' = [NoCall EXCEPT !.op = "on_trade_opened"]
    /\ UNCHANGED <<gw, drv, cfg, wall_day>>

OnTradeClosed ==
    \E pnl \in Pnls, b \in Balances :
        LET e1 == on_trade_closed(eng, pnl, b)
        IN  /\ e1.consec_losses <= MaxLossStreak
            /\ e1.today_closed_pnl <= PnlCap
            /\ e1.today_closed_pnl >= -PnlCap
            /\ eng' = e1
            /\ call' = [NoCall EXCEPT !.op = "on_trade_closed", !.pnl = pnl, !.balance = b]
            /\ UNCHANGED <<gw, drv, cfg, wall_day>>

GetRiskPercent ==
    /\ call' = [NoCall EXCEPT !.op = "get_risk_percent", !.risk = get_risk_percent(eng)]
    /\ UNCHANGED <<eng, gw, drv, cfg, wall_day>>

Next ==
    \/ WallTick
    \/ AdvanceTime
    \/ RuleCheck
    \/ OnTradeOpened
    \/ OnTradeClosed
    \/ GetRiskPercent

Spec == Init /\ [][Next]_vars

\* ------------------------------------------------------------------------
\* main.py: session filter and the signal handed to the drivers
\* ------------------------------------------------------------------------
session_enabled == TRUE
start_hour_utc == 7
end_hour_utc == 20

\* is_active_session_backtest(cfg, bar_time) and is_active_session(cfg): the
\* same window test on the bar's hour and on the wall clock's hour.
is_active_session(utc_hour) ==
    IF ~session_enabled THEN TRUE
    ELSE IF start_hour_utc <= end_hour_utc
      THEN start_hour_utc <= utc_hour /\ utc_hour < end_hour_utc
    ELSE utc_hour >= start_hour_utc \/ utc_hour < end_hour_utc

\* The wall-clock date on which a driver starts.
StartDay == 2

\* Inputs of the drivers: prices, ATR values, bar hours, H4 window lengths.
BasePrice == 110000
PriceLevels == {BasePrice - 1100, BasePrice}
Atrs == {200}
Hours == {9, 12, 21}
H4Lens == {19, 200}
BarDays == {1, 2}
SlDists == {500, 600}
rr_ratio == 2

Bars ==
    { [high |-> h, low |-> l, close |-> c, atr |-> a] :
        h \in PriceLevels, l \in PriceLevels, c \in PriceLevels, a \in Atrs }

ValidBar(bar) == bar.low <= bar.close /\ bar.close <= bar.high

\* What get_signal returns: None, or a Signal built around the entry price
\* (the close in a backtest, the ask or bid in real time), its stop sl_dist away
\* and its target rr_ratio times that; "flipped" is a Signal whose stop and
\* target are on the wrong sides of the entry.
Signal(direction, entry, sl_dist, flipped) ==
    LET side == IF flipped THEN -direction ELSE direction
    IN  [none |-> FALSE, direction |-> direction, entry |-> entry,
         sl |-> entry - side * sl_dist, tp |-> entry + side * sl_dist * rr_ratio,
         sl_pips |-> sl_dist]

\* The signals tried on each bar: none, a buy with each stop distance, a buy
\* with stop and target flipped, a sell.
SignalKinds == {"none", "buy", "buy_wide", "buy_flipped", "sell"}

signal_at(kind, buy_entry, sell_entry) ==
    LET tight == CHOOSE sd \in SlDists : \A other \in SlDists : sd <= other
        wide == CHOOSE sd \in SlDists : \A other \in SlDists : sd >= other
    IN  IF kind = "none" THEN NoSignal
        ELSE IF kind = "sell" THEN Signal(-1, sell_entry, tight, FALSE)
        ELSE IF kind = "buy_wide" THEN Signal(1, buy_entry, wide, FALSE)
        ELSE Signal(1, buy_entry, tight, kind = "buy_flipped")

\* ------------------------------------------------------------------------
\* main.py: run_backtest
\* ------------------------------------------------------------------------
MaxBars == 3         \* bars processed after the warm-up

\* "while len(gateway.trade_history) > trades_total": every ledger row after
\* the first trades_total rows goes to on_trade_closed with the balance.
RECURSIVE process_closed_trades(_, _, _, _)
process_closed_trades(e, history, trades_total, balance) ==
    IF Len(history) > trades_total
    THEN process_closed_trades(on_trade_closed(e, history[trades_total + 1].pnl, balance),
                               history, trades_total + 1, balance)
    ELSE e

\* Loop body up to the closed trades: advance_time, update_price, check_sl_tp,
\* process closed trades.
bt_manage(e, g, d, bar_day, bar, now) ==
    LET e1 == advance_time(e, bar_day, g.balance)
        g1 == update_price(g, bar.close)
        g2 == check_sl_tp(g1, bar, cfg, now)
    IN  [eng |-> process_closed_trades(e1, g2.trade_history, d.trades_total, g2.balance),
         gw |-> g2]

\* The entry steps without the validate_sl_tp guard.
bt_entry_no_validation(e, g, signal, now) ==
    IF has_position(g)
      THEN [eng |-> e, gw |-> g, outcome |-> "position_open", had_position |-> FALSE]
    ELSE IF signal.none
      THEN [eng |-> e, gw |-> g, outcome |-> "no_signal", had_position |-> FALSE]
    ELSE LET lots == calculate_lot_size(g.balance, get_risk_percent(e), signal.sl_pips)
         IN  IF lots <= 0
               THEN [eng |-> e, gw |-> g, outcome |-> "lot_zero", had_position |-> FALSE]
             ELSE [eng |-> on_trade_opened(e),
                   gw |-> open_trade(g, signal.direction, lots, signal.sl, signal.tp, now).gw,
                   outcome |-> "trades_opened",
                   had_position |-> has_position(g)]

\* The entry steps without the "if gateway.has_position(): continue" guard.
bt_entry_no_position_check(e, g, signal, now) ==
    IF signal.none
      THEN [eng |-> e, gw |-> g, outcome |-> "no_signal", had_position |-> FALSE]
    ELSE IF ~validate_sl_tp(signal.entry, signal.sl, signal.tp, signal.direction)
      THEN [eng |-> e, gw |-> g, outcome |-> "sl_invalid", had_position |-> FALSE]
    ELSE LET lots == calculate_lot_size(g.balance, get_risk_percent(e), signal.sl_pips)
         IN  IF lots <= 0
               THEN [eng |-> e, gw |-> g, outcome |-> "lot_zero", had_position |-> FALSE]
             ELSE [eng |-> on_trade_opened(e),
                   gw |-> open_trade(g, signal.direction, lots, signal.sl, signal.tp, now).gw,
                   outcome |-> "trades_opened",
                   had_position |-> has_position(g)]

\* Loop body from "Skip if position open" to the end: the engine and gateway
\* after it and the bt_diag counter it incremented.
bt_entry(e, g, signal, now) ==
    IF has_position(g)
      THEN [eng |-> e, gw |-> g, outcome |-> "position_open", had_position |-> FALSE]
    ELSE IF signal.none
      THEN [eng |-> e, gw |-> g, outcome |-> "no_signal", had_position |-> FALSE]
    ELSE IF ~validate_sl_tp(signal.entry, signal.sl, signal.tp, signal.direction)
      THEN [eng |-> e, gw |-> g, outcome |-> "sl_invalid", had_position |-> FALSE]
    ELSE LET lots == calculate_lot_size(g.balance, get_risk_percent(e), signal.sl_pips)
         IN  IF lots <= 0
               THEN [eng |-> e, gw |-> g, outcome |-> "lot_zero", had_position |-> FALSE]
             ELSE [eng |-> on_trade_opened(e),
                   gw |-> open_trade(g, signal.direction, lots, signal.sl, signal.tp, now).gw,
                   outcome |-> "trades_opened",
                   had_position |-> has_position(g)]

\* The loop body from the H4 window to the end without the
\* "if len(h4_window) < 20: continue" guard.
bt_decide_no_h4_check(e, g, today, bar_hour, h4_len, signal) ==
    IF ~is_active_session(bar_hour)
      THEN [eng |-> e, gw |-> g,
            outcome |-> IF h4_len < 20 THEN "h4_insufficient" ELSE "session_blocked",
            had_position |-> FALSE]
    ELSE LET g3 == get_account_info(g)
             rc == rule_check(e, today, g3.balance, g3.equity, spread_pips)
             r == bt_entry(rc.eng, g3, signal, today)
         IN  IF rc.reason # ""
             THEN IF rc.eng.state = "KILL_SWITCH"
                  THEN [eng |-> rc.eng, gw |-> close_all(g3, "KILL_SWITCH", today),
                        outcome |-> "kill_switch", had_position |-> FALSE]
                  ELSE [eng |-> rc.eng, gw |-> g3,
                        outcome |-> IF h4_len < 20 THEN "h4_insufficient"
                                    ELSE "compliance_blocked",
                        had_position |-> FALSE]
             ELSE [r EXCEPT !.outcome = IF h4_len < 20 THEN "h4_insufficient" ELSE @]

\* Loop body from the H4 window to the end.
bt_decide(e, g, today, bar_hour, h4_len, signal) ==
    IF h4_len < 20
      THEN [eng |-> e, gw |-> g, outcome |-> "h4_insufficient", had_position |-> FALSE]
    ELSE IF ~is_active_session(bar_hour)
      THEN [eng |-> e, gw |-> g, outcome |-> "session_blocked", had_position |-> FALSE]
    ELSE LET g3 == get_account_info(g)
             rc == rule_check(e, today, g3.balance, g3.equity, spread_pips)
         IN  IF rc.reason # ""
             THEN IF rc.eng.state = "KILL_SWITCH"
                  THEN [eng |-> rc.eng, gw |-> close_all(g3, "KILL_SWITCH", today),
                        outcome |-> "kill_switch", had_position |-> FALSE]
                  ELSE [eng |-> rc.eng, gw |-> g3,
                        outcome |-> "compliance_blocked", had_position |-> FALSE]
             ELSE bt_entry(rc.eng, g3, signal, today)

BacktestDriver ==
    [mode |-> "backtest", pc |-> "loop", i |-> 0, bar_day |-> 0, bar_hour |-> 0,
     trades_total |-> 0, outcome |-> "", had_position |-> FALSE,
     opened_on_bar_day |-> 0, same_day |-> FALSE, last_bar_time |-> 0,
     was_connected |-> TRUE, alerted |-> FALSE]

\* A backtest started on wall-clock day 2 over bars dated BarDays.
InitBT ==
    /\ wall_day = StartDay
    /\ eng = ComplianceEngine(wall_day)
    /\ gw = DryRunGateway
    /\ drv = BacktestDriver
    /\ cfg \in {TradeManagement(FALSE, TRUE, TRUE)}
    /\ call = NoCall

\* One iteration of "for i in range(warmup, len(h1_all))".
BacktestBar ==
    /\ drv.mode = "backtest" /\ drv.pc = "loop" /\ drv.i < MaxBars
    /\ \E bar_day \in BarDays, bar_hour \in Hours, bar \in Bars, h4_len \in H4Lens :
      \E signal \in {signal_at(kind, bar.close, bar.close) : kind \in SignalKinds} :
        /\ ValidBar(bar)
        /\ bar_day > drv.bar_day \/ (bar_day = drv.bar_day /\ bar_hour > drv.bar_hour)
        /\ \E m \in {bt_manage(eng, gw, drv, bar_day, bar, wall_day)} :
           \E r \in {bt_decide(m.eng, m.gw, wall_day, bar_hour, h4_len, signal)} :
             LET same == (bar_day = drv.bar_day)
                 before == IF same THEN drv.opened_on_bar_day ELSE 0
             IN  /\ eng' = r.eng
                 /\ gw' = r.gw
                 /\ drv' = [drv EXCEPT
                              !.i = @ + 1,
                              !.bar_day = bar_day,
                              !.bar_hour = bar_hour,
                              !.trades_total = Len(m.gw.trade_history),
                              !.outcome = r.outcome,
                              !.had_position = r.had_position,
                              !.same_day = same,
                              !.opened_on_bar_day =
                                  IF r.outcome = "trades_opened" THEN before + 1 ELSE before,
                              !.pc = IF r.outcome = "kill_switch" THEN "end" ELSE "loop"]
    /\ UNCHANGED <<cfg, wall_day, call>>

\* The bars are exhausted.
BacktestLoopEnd ==
    /\ drv.mode = "backtest" /\ drv.pc = "loop" /\ drv.i > 0
    /\ drv' = [drv EXCEPT !.pc = "end"]
    /\ UNCHANGED <<eng, gw, cfg, wall_day, call>>

\* After the loop: close_all("BACKTEST_END") and the remaining closed trades.
BacktestEnd ==
    /\ drv.mode = "backtest" /\ drv.pc = "end"
    /\ LET g1 == close_all(gw, "BACKTEST_END", wall_day)
       IN  /\ gw' = g1
           /\ eng' = process_closed_trades(eng, g1.trade_history, drv.trades_total, g1.balance)
           /\ drv' = [drv EXCEPT !.pc = "done", !.trades_total = Len(g1.trade_history)]
    /\ UNCHANGED <<cfg, wall_day, call>>

\* The wall clock passes midnight UTC while a driver runs.
Midnight ==
    /\ wall_day < StartDay + 1
    /\ wall_day' = wall_day + 1
    /\ UNCHANGED <<eng, gw, drv, cfg, call>>

NextBT ==
    \/ Midnight
    \/ BacktestBar
    \/ BacktestLoopEnd
    \/ BacktestEnd

SpecBT == InitBT /\ [][NextBT]_vars

\* ------------------------------------------------------------------------
\* broker/mt5_gateway.py: LiveGateway.  The record is the MT5 terminal the
\* gateway talks to: its account, tick, positions and deal history, kept as
\* the simulator keeps them, and order_done, whether the terminal answers the
\* DEAL requests of the cycle with TRADE_RETCODE_DONE.
\* ------------------------------------------------------------------------
magic == 202503

\* __init__ followed by connect()
LiveGateway == DryRunGateway @@ [magic |-> magic, order_done |-> TRUE]

\* isinstance(gateway, LiveGateway)
is_live(g) == "magic" \in DOMAIN g

\* The terminal between two cycles: the tick moves to the market and the
\* answer to the next orders is settled.  A DryRunGateway has no terminal.
terminal_tick(g, bid, order_done) ==
    IF is_live(g) THEN [update_price(g, bid) EXCEPT !.order_done = order_done] ELSE g

\* get_positions(): the DryRunGateway hands out its own Position objects; the
\* LiveGateway builds a Position from ticket, type, price_open, sl, tp and
\* volume, the other fields taking the dataclass defaults.
get_positions(g) ==
    IF is_live(g)
    THEN [k \in 1..Len(g.positions) |->
            [g.positions[k] EXCEPT !.sl_pips = 0, !.be_activated = FALSE,
                                   !.partial_closed = FALSE]]
    ELSE g.positions

\* LiveGateway.open_trade: up to three order_send attempts at the tick price;
\* a filled order is a position of the terminal.
live_open_trade(g, direction, lots, sl, tp, now) ==
    IF ~g.order_done
    THEN [gw |-> g, success |-> FALSE, ticket |-> 0, price |-> 0]
    ELSE LET price == IF direction > 0 THEN g.last_ask ELSE g.last_bid
             pos == [ ticket |-> g.next_ticket, direction |-> direction,
                      entry |-> price, sl |-> sl, tp |-> tp, lots |-> lots,
                      sl_pips |-> 0, be_activated |-> FALSE, partial_closed |-> FALSE,
                      open_time |-> now ]
         IN  [gw |-> [g EXCEPT !.next_ticket = @ + 1,
                               !.positions = Append(@, pos)],
              success |-> TRUE, ticket |-> g.next_ticket, price |-> price]

\* gateway.open_trade(...) on whichever gateway create_gateway built.
gateway_open_trade(g, direction, lots, sl, tp, now) ==
    IF is_live(g) THEN live_open_trade(g, direction, lots, sl, tp, now)
    ELSE open_trade(g, direction, lots, sl, tp, now)

\* ------------------------------------------------------------------------
\* main.py: manage_open_positions, run_cycle, run_realtime
\* ------------------------------------------------------------------------
MaxCycles == 3       \* cycles of the real-time loop

\* Body of "for pos in positions": breakeven, then trailing stop, on the
\* current bid (long) or ask (short). price_to_pips takes the absolute value.
manage_one(g, pos, atr, c) ==
    LET current == IF pos.direction > 0 THEN g.last_bid ELSE g.last_ask
        diff == IF pos.direction > 0 THEN current - pos.entry ELSE pos.entry - current
        profit_pips == IF diff >= 0 THEN diff ELSE -diff
        be_sl == pos.entry + pos.direction * pip_size
        do_be == /\ c.breakeven_enabled /\ ~pos.be_activated
                 /\ profit_pips * 10 >= breakeven_r * pos.sl_pips
                 /\ IF pos.direction > 0 THEN be_sl > pos.sl ELSE be_sl < pos.sl
        g1 == IF do_be
              THEN [g EXCEPT !.positions =
                      ReplacePos(@, [pos EXCEPT !.sl = be_sl, !.be_activated = TRUE])]
              ELSE g
        pos1 == PosOf(g1, pos.ticket)
        trail_sl == current - pos.direction * ((atr * trailing_atr_mult) \div 10)
        do_trail == /\ c.trailing_enabled /\ pos1.be_activated
                    /\ profit_pips * 10 >= trailing_start_r * pos1.sl_pips
                    /\ atr > 0
                    /\ IF pos.direction > 0
                       THEN trail_sl > pos1.sl /\ trail_sl > pos1.entry
                       ELSE trail_sl < pos1.sl /\ trail_sl < pos1.entry
    IN  IF pos.sl_pips <= 0 \/ current <= 0 THEN g
        ELSE IF do_trail THEN modify_sl(g1, pos.ticket, trail_sl)
        ELSE g1

RECURSIVE ManageEach(_, _, _, _)
ManageEach(g, ps, atr, c) ==
    IF ps = <<>> THEN g
    ELSE ManageEach(manage_one(g, Head(ps), atr, c), Tail(ps), atr, c)

\* manage_open_positions(gateway, cfg, atr, logger)
manage_open_positions(g, atr, c) == ManageEach(g, get_positions(g), atr, c)

\* The entry steps calling the post-open hook whatever open_trade returned.
rt_entry_hook_unconditional(e, g, signal, now) ==
    IF has_position(g)
      THEN [eng |-> e, gw |-> g, outcome |-> "position_open", had_position |-> FALSE]
    ELSE IF signal.none
      THEN [eng |-> e, gw |-> g, outcome |-> "no_signal", had_position |-> FALSE]
    ELSE IF ~validate_sl_tp(signal.entry, signal.sl, signal.tp, signal.direction)
      THEN [eng |-> e, gw |-> g, outcome |-> "sl_invalid", had_position |-> FALSE]
    ELSE LET lots == calculate_lot_size(g.balance, get_risk_percent(e), signal.sl_pips)
             result == gateway_open_trade(g, signal.direction, lots, signal.sl, signal.tp, now)
         IN  IF lots <= 0
               THEN [eng |-> e, gw |-> g, outcome |-> "lot_zero", had_position |-> FALSE]
             ELSE IF spread_pips > max_spread
               THEN [eng |-> e, gw |-> g, outcome |-> "spread_high", had_position |-> FALSE]
             ELSE IF result.success
               THEN [eng |-> on_trade_opened(e), gw |-> result.gw,
                     outcome |-> "trades_opened", had_position |-> has_position(g)]
             ELSE [eng |-> on_trade_opened(e), gw |-> result.gw, outcome |-> "trade_failed",
                   had_position |-> has_position(g)]

\* run_cycle from "10. Already have a position?" to the end.
rt_entry(e, g, signal, now) ==
    IF has_position(g)
      THEN [eng |-> e, gw |-> g, outcome |-> "position_open", had_position |-> FALSE]
    ELSE IF signal.none
      THEN [eng |-> e, gw |-> g, outcome |-> "no_signal", had_position |-> FALSE]
    ELSE IF ~validate_sl_tp(signal.entry, signal.sl, signal.tp, signal.direction)
      THEN [eng |-> e, gw |-> g, outcome |-> "sl_invalid", had_position |-> FALSE]
    ELSE LET lots == calculate_lot_size(g.balance, get_risk_percent(e), signal.sl_pips)
             result == gateway_open_trade(g, signal.direction, lots, signal.sl, signal.tp, now)
         IN  IF lots <= 0
               THEN [eng |-> e, gw |-> g, outcome |-> "lot_zero", had_position |-> FALSE]
             ELSE IF spread_pips > max_spread
               THEN [eng |-> e, gw |-> g, outcome |-> "spread_high", had_position |-> FALSE]
             ELSE IF result.success
               THEN [eng |-> on_trade_opened(e), gw |-> result.gw,
                     outcome |-> "trades_opened", had_position |-> has_position(g)]
             ELSE [eng |-> e, gw |-> result.gw, outcome |-> "trade_failed",
                   had_position |-> has_position(g)]

\* run_cycle from "5. Check for new H1 bar" to the end, on the gateway that
\* manage_open_positions left.
rt_new_bar(e, g, today, news_blocked, utc_hour, signal) ==
    LET g1 == get_account_info(g)
        rc == rule_check(e, today, g1.balance, g1.equity, spread_pips)
    IN  IF rc.reason # ""
        THEN IF rc.eng.state = "KILL_SWITCH"
             THEN [eng |-> rc.eng,
                   gw |-> cancel_pending(close_all(g1, "KILL_SWITCH", today), "KILL_SWITCH"),
                   outcome |-> "kill_switch", had_position |-> FALSE]
             ELSE [eng |-> rc.eng, gw |-> g1,
                   outcome |-> "compliance_blocked", had_position |-> FALSE]
        ELSE IF ~is_active_session(utc_hour)
          THEN [eng |-> rc.eng, gw |-> g1, outcome |-> "session_blocked",
                had_position |-> FALSE]
        ELSE IF news_blocked
          THEN [eng |-> rc.eng, gw |-> g1, outcome |-> "news_blocked",
                had_position |-> FALSE]
        ELSE rt_entry(rc.eng, g1, signal, today)

\* run_cycle without the new-bar check: every polling cycle evaluates the bar.
run_cycle_every_poll(e, g, d, today, connected, data_ok, bar, bar_time, news_blocked, should_cancel, utc_hour, kind) ==
    IF ~connected
      THEN [eng |-> e, gw |-> g, was_connected |-> FALSE,
            last_bar_time |-> d.last_bar_time, alerted |-> d.was_connected,
            outcome |-> "disconnected", had_position |-> FALSE]
    ELSE IF ~data_ok
      THEN [eng |-> e, gw |-> g, was_connected |-> TRUE,
            last_bar_time |-> d.last_bar_time, alerted |-> FALSE,
            outcome |-> "insufficient_data", had_position |-> FALSE]
    ELSE LET g1 == IF is_live(g) THEN g ELSE update_price(g, bar.close)
             g2 == manage_open_positions(g1, bar.atr, cfg)
             g3 == IF news_blocked /\ should_cancel
                   THEN cancel_pending(g2, "NEWS_WINDOW") ELSE g2
         IN  IF FALSE
             THEN [eng |-> e, gw |-> g3, was_connected |-> TRUE,
                   last_bar_time |-> d.last_bar_time, alerted |-> FALSE,
                   outcome |-> "no_new_bar", had_position |-> FALSE]
             ELSE LET r == rt_new_bar(e, g3, today, news_blocked, utc_hour,
                                      signal_at(kind, g3.last_ask, g3.last_bid))
                  IN  [eng |-> r.eng, gw |-> r.gw, was_connected |-> TRUE,
                       last_bar_time |-> bar_time, alerted |-> FALSE,
                       outcome |-> r.outcome, had_position |-> r.had_position]

\* run_cycle with the safe-mode alert sent on every disconnected cycle.
run_cycle_alert_every_cycle(e, g, d, today, connected, data_ok, bar, bar_time, news_blocked, should_cancel, utc_hour, kind) ==
    IF ~connected
      THEN [eng |-> e, gw |-> g, was_connected |-> FALSE,
            last_bar_time |-> d.last_bar_time, alerted |-> TRUE,
            outcome |-> "disconnected", had_position |-> FALSE]
    ELSE IF ~data_ok
      THEN [eng |-> e, gw |-> g, was_connected |-> TRUE,
            last_bar_time |-> d.last_bar_time, alerted |-> FALSE,
            outcome |-> "insufficient_data", had_position |-> FALSE]
    ELSE LET g1 == IF is_live(g) THEN g ELSE update_price(g, bar.close)
             g2 == manage_open_positions(g1, bar.atr, cfg)
             g3 == IF news_blocked /\ should_cancel
                   THEN cancel_pending(g2, "NEWS_WINDOW") ELSE g2
         IN  IF bar_time = d.last_bar_time
             THEN [eng |-> e, gw |-> g3, was_connected |-> TRUE,
                   last_bar_time |-> d.last_bar_time, alerted |-> FALSE,
                   outcome |-> "no_new_bar", had_position |-> FALSE]
             ELSE LET r == rt_new_bar(e, g3, today, news_blocked, utc_hour,
                                      signal_at(kind, g3.last_ask, g3.last_bid))
                  IN  [eng |-> r.eng, gw |-> r.gw, was_connected |-> TRUE,
                       last_bar_time |-> bar_time, alerted |-> FALSE,
                       outcome |-> r.outcome, had_position |-> r.had_position]

\* run_cycle(cfg, gateway, data_feed, compliance, news, logger, alerts, state):
\* the engine, the gateway and the state dict after one cycle.
run_cycle(e, g, d, today, connected, data_ok, bar, bar_time, news_blocked, should_cancel, utc_hour, kind) ==
    IF ~connected
      THEN [eng |-> e, gw |-> g, was_connected |-> FALSE,
            last_bar_time |-> d.last_bar_time, alerted |-> d.was_connected,
            outcome |-> "disconnected", had_position |-> FALSE]
    ELSE IF ~data_ok
      THEN [eng |-> e, gw |-> g, was_connected |-> TRUE,
            last_bar_time |-> d.last_bar_time, alerted |-> FALSE,
            outcome |-> "insufficient_data", had_position |-> FALSE]
    ELSE LET g1 == IF is_live(g) THEN g ELSE update_price(g, bar.close)
             g2 == manage_open_positions(g1, bar.atr, cfg)
             g3 == IF news_blocked /\ should_cancel
                   THEN cancel_pending(g2, "NEWS_WINDOW") ELSE g2
         IN  IF bar_time = d.last_bar_time
             THEN [eng |-> e, gw |-> g3, was_connected |-> TRUE,
                   last_bar_time |-> d.last_bar_time, alerted |-> FALSE,
                   outcome |-> "no_new_bar", had_position |-> FALSE]
             ELSE LET r == rt_new_bar(e, g3, today, news_blocked, utc_hour,
                                      signal_at(kind, g3.last_ask, g3.last_bid))
                  IN  [eng |-> r.eng, gw |-> r.gw, was_connected |-> TRUE,
                       last_bar_time |-> bar_time, alerted |-> FALSE,
                       outcome |-> r.outcome, had_position |-> r.had_position]

\* state = {"last_bar_time": None, "was_connected": True, "cycles": 0}
RealtimeDriver ==
    [BacktestDriver EXCEPT !.mode = "realtime"]

InitRT ==
    /\ wall_day = StartDay
    /\ eng = ComplianceEngine(wall_day)
    /\ gw = DryRunGateway
    /\ drv = RealtimeDriver
    /\ cfg \in {TradeManagement(FALSE, TRUE, TRUE)}
    /\ call = NoCall

\* run_realtime in live mode: create_gateway builds the LiveGateway.
InitLive ==
    /\ wall_day = StartDay
    /\ eng = ComplianceEngine(wall_day)
    /\ gw = LiveGateway
    /\ drv = RealtimeDriver
    /\ cfg \in {TradeManagement(FALSE, TRUE, TRUE)}
    /\ call = NoCall

\* What the terminal may answer to the order of a cycle, drawn for the cycles
\* that can send one: connected, with data and with a signal.
OrderAnswers(g, may_order) == IF is_live(g) /\ may_order THEN BOOLEAN ELSE {TRUE}

\* One pass of "while True" in run_realtime: run_cycle, then the cycle count.
\* The H1 bar the data feed returns is the one of the previous cycle or the
\* next one.
\* "connected" is what gateway.is_connected() answers and "data_ok" whether the
\* data feed returned enough H1 and H4 bars.
RealtimeCycle ==
    /\ drv.mode = "realtime" /\ drv.pc = "loop" /\ drv.i < MaxCycles
    /\ \E connected \in BOOLEAN, data_ok \in BOOLEAN, bar \in Bars,
          new_bar \in BOOLEAN, news_blocked \in BOOLEAN, utc_hour \in Hours,
          kind \in SignalKinds :
        /\ ValidBar(bar)
        /\ \E order_done \in OrderAnswers(gw, connected /\ data_ok /\ kind # "none") :
           \E r \in {run_cycle(eng, terminal_tick(gw, bar.close, order_done), drv,
                               wall_day, connected, data_ok, bar,
                               IF new_bar \/ drv.last_bar_time = 0
                               THEN drv.last_bar_time + 1 ELSE drv.last_bar_time,
                               news_blocked, TRUE, utc_hour, kind)} :
             /\ eng' = r.eng
             /\ gw' = r.gw
             /\ drv' = [drv EXCEPT !.i = @ + 1,
                                   !.was_connected = r.was_connected,
                                   !.alerted = r.alerted,
                                   !.last_bar_time = r.last_bar_time,
                                   !.outcome = r.outcome,
                                   !.had_position = r.had_position]
    /\ UNCHANGED <<cfg, wall_day, call>>

\* KeyboardInterrupt: "finally: gateway.close_all("BOT_SHUTDOWN");
\* gateway.disconnect()".
Shutdown ==
    /\ drv.mode = "realtime" /\ drv.pc = "loop"
    /\ gw' = [close_all(gw, "BOT_SHUTDOWN", wall_day) EXCEPT !.connected = FALSE]
    /\ drv' = [drv EXCEPT !.pc = "done"]
    /\ UNCHANGED <<eng, cfg, wall_day, call>>

NextRT ==
    \/ Midnight
    \/ RealtimeCycle
    \/ Shutdown

SpecRT == InitRT /\ [][NextRT]_vars

\* ------------------------------------------------------------------------
\* Specification SpecDay: advance_time called with a bar timestamp on an engine
\* in any state of its day
\* ------------------------------------------------------------------------
\* Bar timestamps: naive, UTC, New York and Athens, early and late in the day,
\* on the dates that fall on the days 1..MaxDay + 1 in UTC.
BarTimes ==
    { bt \in [date : 0..(MaxDay + 2), hour : {1, 22}, tzinfo : BOOLEAN,
              utcoffset : {-5, 0, 2}] :
        /\ bt.tzinfo \/ bt.utcoffset = 0
        /\ bar_time_date(bt) \in 1..(MaxDay + 1) }

\* The engine some way into a day: any risk state, with or without a loss
\* streak, a trade and a closed loss today.
DayEngines ==
    { [ComplianceEngine(day) EXCEPT !.state = st, !.consec_losses = streak,
                                    !.trades_today = n, !.today_closed_pnl = pnl,
                                    !.prev_eod_balance = eod] :
        day \in 1..(MaxDay + 1), st \in RiskState, streak \in {0, reduce_risk_after},
        n \in {0, max_trades_per_day}, pnl \in {-300, 0}, eod \in Balances }

InitDay ==
    /\ wall_day = StartDay
    /\ eng \in DayEngines
    /\ gw = DryRunGateway
    /\ drv = NoDriver
    /\ cfg = TradeManagement(FALSE, TRUE, TRUE)
    /\ call = NoCall

AdvanceTimeCall ==
    \E bar_time \in BarTimes, b \in Balances :
        /\ eng' = advance_time(eng, bar_time_date(bar_time), b)
        /\ call' = [NoCall EXCEPT !.op = "advance_time", !.balance = b,
                                  !.day = bar_time_date(bar_time),
                                  !.rolled = (bar_time_date(bar_time) # eng.current_day),
                                  !.bar_time = bar_time]
        /\ UNCHANGED <<gw, drv, cfg, wall_day>>

NextDay == AdvanceTimeCall

SpecDay == InitDay /\ [][NextDay]_vars

\* ------------------------------------------------------------------------
\* Specification SpecSink: the real-time loop with a trade ledger that can fail
\* (ops/logger.py), as run_realtime's "try: run_cycle ... except Exception" sees it
\* ------------------------------------------------------------------------
\* TradeLogger: the day of the last daily summary and whether _trade_writer
\* still writes to an open file.
TradeLogger == [current_day |-> StartDay, file_open |-> TRUE]

\* check_new_day: on a new UTC day the summary is written, _current_day is set
\* and _open_trade_csv closes the old file and opens the month's file; an
\* OSError from open() leaves the writer on the closed file and is not caught.
check_new_day(lg, today, io_error) ==
    IF today = lg.current_day
      THEN [logger |-> lg, raised |-> FALSE]
      ELSE [logger |-> [current_day |-> today, file_open |-> ~io_error],
            raised |-> io_error]

\* _write_trade_row: writerow and flush, uncaught; writing to a closed file raises.
write_trade_row_raises(lg, io_error) == io_error \/ ~lg.file_open

\* One pass of the loop body of run_realtime: run_cycle starts with
\* logger.check_new_day() and, after a trade is opened and counted, calls
\* logger.log_trade_open before logger.info and alerts.trade_opened. An exception
\* leaves run_cycle at the call that raised it; "except Exception" logs it and
\* the loop sleeps and goes on, without counting the cycle.
run_cycle_with_logger(e, g, d, today, connected, data_ok, bar, bar_time, news_blocked, should_cancel, utc_hour, kind, io_error) ==
    LET c == check_new_day(d.logger, today, io_error)
        r == run_cycle(e, g, d, today, connected, data_ok, bar, bar_time,
                       news_blocked, should_cancel, utc_hour, kind)
    IN  IF c.raised
          THEN [eng |-> e, gw |-> g, was_connected |-> d.was_connected,
                last_bar_time |-> d.last_bar_time, alerted |-> FALSE,
                outcome |-> "cycle_error", trade_alert |-> FALSE,
                logger |-> c.logger, cycles |-> d.cycles]
        ELSE IF r.outcome = "trades_opened" /\ write_trade_row_raises(c.logger, io_error)
          THEN [eng |-> r.eng, gw |-> r.gw, was_connected |-> r.was_connected,
                last_bar_time |-> r.last_bar_time, alerted |-> r.alerted,
                outcome |-> "cycle_error", trade_alert |-> FALSE,
                logger |-> c.logger, cycles |-> d.cycles]
        ELSE [eng |-> r.eng, gw |-> r.gw, was_connected |-> r.was_connected,
              last_bar_time |-> r.last_bar_time, alerted |-> r.alerted,
              outcome |-> r.outcome, trade_alert |-> (r.outcome = "trades_opened"),
              logger |-> c.logger, cycles |-> d.cycles + 1]

\* state = {"last_bar_time": None, "was_connected": True, "cycles": 0}, and the
\* TradeLogger built by run_realtime.
LoggedDriver ==
    [mode |-> "logged", pc |-> "loop", i |-> 0, last_bar_time |-> 0,
     was_connected |-> TRUE, alerted |-> FALSE, outcome |-> "",
     trade_alert |-> FALSE, logger |-> TradeLogger, cycles |-> 0]

InitSink ==
    /\ wall_day = StartDay
    /\ eng = ComplianceEngine(wall_day)
    /\ gw = DryRunGateway
    /\ drv = LoggedDriver
    /\ cfg \in {TradeManagement(FALSE, TRUE, TRUE)}
    /\ call = NoCall

\* One pass of "while True" in run_realtime; "io_error" is whether the ledger's
\* file operations of this pass raise OSError.
LoggedCycle ==
    /\ drv.mode = "logged" /\ drv.pc = "loop" /\ drv.i < MaxCycles
    /\ \E connected \in BOOLEAN, data_ok \in BOOLEAN, bar \in Bars,
          new_bar \in BOOLEAN, news_blocked \in BOOLEAN, utc_hour \in Hours,
          kind \in SignalKinds, io_error \in BOOLEAN :
        /\ ValidBar(bar)
        /\ \E r \in {run_cycle_with_logger(eng, gw, drv, wall_day, connected, data_ok, bar,
                                           IF new_bar \/ drv.last_bar_time = 0
                                           THEN drv.last_bar_time + 1
                                           ELSE drv.last_bar_time,
                                           news_blocked, TRUE, utc_hour, kind, io_error)} :
             /\ eng' = r.eng
             /\ gw' = r.gw
             /\ drv' = [drv EXCEPT !.i = @ + 1,
                                   !.was_connected = r.was_connected,
                                   !.last_bar_time = r.last_bar_time,
                                   !.alerted = r.alerted,
                                   !.outcome = r.outcome,
                                   !.trade_alert = r.trade_alert,
                                   !.logger = r.logger,
                                   !.cycles = r.cycles]
    /\ UNCHANGED <<cfg, wall_day, call>>

NextSink ==
    \/ Midnight
    \/ LoggedCycle

SpecSink == InitSink /\ [][NextSink]_vars

\* ------------------------------------------------------------------------
\* Specification SpecNews: core/news.py under the real-time cycle
\* ------------------------------------------------------------------------
MaxNewsCycles == 2      \* cycles of the real-time loop with the news filter

\* The calendar is the set of days that hold a high-impact event window; the
\* clock of the model is wall_day.
Calendars == SUBSET {StartDay}

\* news_cache.json in the log directory: absent, or the events of an earlier fetch
\* (of this run or of a previous one).
NoCacheFile == [exists |-> FALSE, events |-> {}]

\* NewsFilter.__init__; "fetched" stands for _last_fetch > 0.
NewsFilter(enabled, fail_safe) ==
    [enabled |-> enabled, fail_safe |-> fail_safe, events |-> {},
     fetched |-> FALSE, fetch_ok |-> FALSE]

\* refresh(): nothing when disabled or while the cache_ttl has not run out;
\* otherwise the calendar is requested, kept and written to the cache file, and
\* any exception (from the request or from the write) falls back to the cache
\* file when it exists and can be read. "calendar.ok" is whether the request
\* succeeds, "disk_ok" whether the cache file can be written and read,
\* "ttl_expired" whether time.time() - _last_fetch >= cache_ttl.
refresh(nf, cache, ttl_expired, calendar, disk_ok) ==
    IF ~nf.enabled
      THEN [news |-> nf, cache |-> cache, fetch |-> "disabled"]
    ELSE IF nf.fetched /\ ~ttl_expired
      THEN [news |-> nf, cache |-> cache, fetch |-> "skipped"]
    ELSE LET got == [nf EXCEPT !.events = calendar.events, !.fetched = TRUE,
                               !.fetch_ok = TRUE]
             n1 == IF calendar.ok THEN got ELSE nf
         IN  IF calendar.ok /\ disk_ok
               THEN [news |-> got, cache |-> [exists |-> TRUE, events |-> calendar.events],
                     fetch |-> "fetched"]
             ELSE IF cache.exists /\ disk_ok
               THEN [news |-> [n1 EXCEPT !.events = cache.events, !.fetch_ok = TRUE,
                                         !.fetched = TRUE],
                     cache |-> cache, fetch |-> "failed"]
             ELSE [news |-> [n1 EXCEPT !.fetch_ok = FALSE], cache |-> cache,
                   fetch |-> IF calendar.ok THEN "fetched" ELSE "failed"]

is_blocked(nf, now) ==
    IF ~nf.enabled THEN FALSE
    ELSE IF nf.fail_safe /\ ~nf.fetch_ok THEN TRUE
    ELSE now \in nf.events

should_cancel_pendings(nf, now) == is_blocked(nf, now)

\* run_realtime with its NewsFilter; the cache file may be there from an
\* earlier run.
NewsDriver(nf, cache) ==
    [mode |-> "news", pc |-> "loop", i |-> 0, last_bar_time |-> 0,
     was_connected |-> TRUE, alerted |-> FALSE, outcome |-> "",
     news |-> nf, cache |-> cache, fetch |-> "none", blocked |-> FALSE,
     ever_fetched |-> FALSE]

InitNews ==
    /\ wall_day = StartDay
    /\ eng = ComplianceEngine(wall_day)
    /\ gw = DryRunGateway
    /\ \E enabled \in BOOLEAN, fail_safe \in BOOLEAN, old \in Calendars, exists \in BOOLEAN :
          drv = NewsDriver(NewsFilter(enabled, fail_safe),
                           IF exists THEN [exists |-> TRUE, events |-> old]
                           ELSE NoCacheFile)
    /\ cfg \in {TradeManagement(FALSE, TRUE, TRUE)}
    /\ call = NoCall

\* One run_cycle on a new H1 bar with the gateway connected and the data there:
\* news.refresh(), news.is_blocked() with the pending orders cancelled, and the
\* new-bar steps with is_blocked() asked again before the entry.
NewsCycle ==
    /\ drv.mode = "news" /\ drv.pc = "loop" /\ drv.i < MaxNewsCycles
    /\ \E bar \in Bars, utc_hour \in Hours, kind \in {"none", "buy"},
          ttl_expired \in BOOLEAN, ok \in BOOLEAN, events \in Calendars,
          disk_ok \in BOOLEAN :
        /\ ValidBar(bar)
        /\ \E f \in {refresh(drv.news, drv.cache, ttl_expired,
                             [ok |-> ok, events |-> events], disk_ok)} :
           \E r \in {run_cycle(eng, gw, drv, wall_day, TRUE, TRUE, bar,
                               drv.last_bar_time + 1, is_blocked(f.news, wall_day),
                               should_cancel_pendings(f.news, wall_day),
                               utc_hour, kind)} :
             /\ eng' = r.eng
             /\ gw' = r.gw
             /\ drv' = [drv EXCEPT !.i = @ + 1,
                                   !.was_connected = r.was_connected,
                                   !.last_bar_time = r.last_bar_time,
                                   !.alerted = r.alerted,
                                   !.outcome = r.outcome,
                                   !.news = f.news,
                                   !.cache = f.cache,
                                   !.fetch = f.fetch,
                                   !.blocked = is_blocked(f.news, wall_day),
                                   !.ever_fetched = @ \/ (f.fetch = "fetched")]
    /\ UNCHANGED <<cfg, wall_day, call>>

NextNews ==
    \/ Midnight
    \/ NewsCycle

SpecNews == InitNews /\ [][NextNews]_vars

\* Either driver, as main() starts it from cfg["mode"].
InitDrivers == InitBT \/ InitRT

NextDrivers ==
    \/ Midnight
    \/ BacktestBar
    \/ BacktestLoopEnd
    \/ BacktestEnd
    \/ RealtimeCycle
    \/ Shutdown

SpecDrivers == InitDrivers /\ [][NextDrivers]_vars

\* run_backtest, or run_realtime in live mode.
InitLiveDrivers == InitBT \/ InitLive

SpecLiveDrivers == InitLiveDrivers /\ [][NextDrivers]_vars

\* run_realtime on either gateway: mode "dry_run" or "live".
InitGateways == InitRT \/ InitLive

SpecGateways == InitGateways /\ [][NextRT]_vars

\* ------------------------------------------------------------------------
\* Specification SpecPos: one position under check_sl_tp, bar after bar, for
\* every combination of the trade-management settings
\* ------------------------------------------------------------------------
PartialCloseRs == {partial_close_r, 18}     \* partial_close_r of 1.0 R and 1.8 R
PosLots == {1, 3}                           \* 0.01 lot (cannot be split) and 0.03 lot
PosAtrs == {200, 400, 510}
PosOffsets == {-1100, -950, -800, -600, 0, 600, 800, 950, 1100}
PosLevels == { BasePrice + k : k \in PosOffsets }

\* The bars handed to check_sl_tp, which reads their high, low and atr.
PosBars ==
    { bar \in [high : PosLevels, low : PosLevels, atr : PosAtrs] : bar.low <= bar.high }

TradeManagements ==
    { TradeManagement(FALSE, be, tr) : be \in BOOLEAN, tr \in BOOLEAN }
      \cup { [TradeManagement(TRUE, be, tr) EXCEPT !.partial_close_r = r] :
               be \in BOOLEAN, tr \in BOOLEAN, r \in PartialCloseRs }

PositionDriver == [BacktestDriver EXCEPT !.mode = "position"]

InitPos ==
    /\ wall_day = StartDay
    /\ eng = ComplianceEngine(wall_day)
    /\ gw = update_price(DryRunGateway, BasePrice)
    /\ drv = PositionDriver
    /\ cfg \in TradeManagements
    /\ call = NoCall

\* gateway.open_trade with the stop and target of a buy or sell signal.
PosOpen ==
    /\ drv.mode = "position" /\ ~has_position(gw) /\ gw.next_ticket = first_ticket
    /\ \E kind \in {"buy", "sell"}, lots \in PosLots :
         LET signal == signal_at(kind, gw.last_ask, gw.last_bid)
         IN  gw' = open_trade(gw, signal.direction, lots, signal.sl, signal.tp, wall_day).gw
    /\ drv' = [drv EXCEPT !.outcome = "trades_opened"]
    /\ UNCHANGED <<eng, cfg, wall_day, call>>

\* gateway.check_sl_tp(bar, cfg) on the next bar.
PosBar ==
    /\ drv.mode = "position" /\ has_position(gw)
    /\ \E bar \in PosBars : gw' = check_sl_tp(gw, bar, cfg, wall_day)
    /\ drv' = [drv EXCEPT !.i = IF @ < 1 THEN @ + 1 ELSE @, !.outcome = "check_sl_tp"]
    /\ UNCHANGED <<eng, cfg, wall_day, call>>

NextPos ==
    \/ PosOpen
    \/ PosBar

SpecPos == InitPos /\ [][NextPos]_vars

\* ------------------------------------------------------------------------
\* core/strategy.py: how get_signal builds a Signal (prices in points)
\* ------------------------------------------------------------------------
london_min_sl_pips == 150      \* s.get("min_sl_pips", 15) in _london_breakout
momentum_min_sl_pips == 50     \* s.get("min_sl_pips", 5) in _momentum_breakout
max_sl_pips == 800             \* "<= 80" of the breakout entries
retest_max_sl_pips == 500      \* "<= 50" of the retest entries

\* price_to_pips(price_distance): the absolute value of the distance.
price_to_pips(price_distance) ==
    IF price_distance >= 0 THEN price_distance ELSE -price_distance

\* The Signal of an entry whose stop is a price level (Asian range, bar
\* extreme): entry is the live quote when one is given and the close
\* otherwise, sl_dist is signed, sl_pips is price_to_pips(sl_dist).
level_stop_signal(direction, quote, close, sl, lo, hi) ==
    LET entry == IF quote > 0 THEN quote ELSE close
        sl_dist == IF direction > 0 THEN entry - sl ELSE sl - entry
        sl_pips == price_to_pips(sl_dist)
    IN  IF lo <= sl_pips /\ sl_pips <= hi
        THEN [none |-> FALSE, direction |-> direction, entry |-> entry, sl |-> sl,
              tp |-> entry + direction * sl_dist * rr_ratio, sl_pips |-> sl_pips]
        ELSE NoSignal

\* _london_breakout once the hour, range-size, trend and candle filters have
\* passed and no order-block stop is used.  retest is strategy.london_retest,
\* found is buy_breakout_found (sell_breakout_found) on the side of the close.
london_breakout(b0, asian_high, asian_low, retest, found, current_ask, current_bid) ==
    LET buffer == b0.atr \div 10
        dipped_buy == b0.low <= asian_high + (3 * b0.atr) \div 10
        dipped_sell == b0.high >= asian_low - (3 * b0.atr) \div 10
        retest_buy == level_stop_signal(1, current_ask, b0.close, b0.low - buffer,
                                        london_min_sl_pips, retest_max_sl_pips)
        retest_sell == level_stop_signal(-1, current_bid, b0.close, b0.high + buffer,
                                         london_min_sl_pips, retest_max_sl_pips)
        break_buy == level_stop_signal(1, current_ask, b0.close, asian_low - buffer,
                                       london_min_sl_pips, max_sl_pips)
        break_sell == level_stop_signal(-1, current_bid, b0.close, asian_high + buffer,
                                        london_min_sl_pips, max_sl_pips)
    IN  IF retest
        THEN IF found /\ b0.close > asian_high /\ dipped_buy /\ ~retest_buy.none
               THEN retest_buy
             ELSE IF found /\ b0.close < asian_low /\ dipped_sell /\ ~retest_sell.none
               THEN retest_sell
             ELSE IF b0.close > asian_high /\ ~found /\ ~break_buy.none THEN break_buy
             ELSE IF b0.close < asian_low /\ ~found THEN break_sell
             ELSE NoSignal
        ELSE IF b0.close > asian_high THEN break_buy
             ELSE IF b0.close < asian_low THEN break_sell
             ELSE NoSignal

\* _momentum_breakout, Donchian breakout entries, once the trend, RSI and
\* candle filters have passed: the stop is 1.5 ATR away from the entry.
momentum_breakout(b0, prev_high, prev_low, current_ask, current_bid) ==
    LET sl_dist == (b0.atr * 15) \div 10
        sl_pips == price_to_pips(sl_dist)
        buy_entry == IF current_ask > 0 THEN current_ask ELSE b0.close
        sell_entry == IF current_bid > 0 THEN current_bid ELSE b0.close
        in_band == momentum_min_sl_pips <= sl_pips /\ sl_pips <= max_sl_pips
    IN  IF b0.close > prev_high /\ in_band
          THEN [none |-> FALSE, direction |-> 1, entry |-> buy_entry,
                sl |-> buy_entry - sl_dist, tp |-> buy_entry + sl_dist * rr_ratio,
                sl_pips |-> sl_pips]
        ELSE IF b0.close < prev_low /\ in_band
          THEN [none |-> FALSE, direction |-> -1, entry |-> sell_entry,
                sl |-> sell_entry + sl_dist, tp |-> sell_entry - sl_dist * rr_ratio,
                sl_pips |-> sl_pips]
        ELSE NoSignal

\* get_signal(h1, h4, cfg, current_ask, current_bid): routed on
\* strategy.london_breakout; hi and lo are the range the close is compared
\* with (Asian range, Donchian channel).
get_signal(london, b0, hi, lo, retest, found, current_ask, current_bid) ==
    IF london THEN london_breakout(b0, hi, lo, retest, found, current_ask, current_bid)
    ELSE momentum_breakout(b0, hi, lo, current_ask, current_bid)

\* ------------------------------------------------------------------------
\* core/strategy.py: the filters of get_signal and the diag counters
\* ------------------------------------------------------------------------
\* What one evaluation did: whether it returned a Signal, and the keys of
\* diag it incremented, in order, one entry per "+= 1".
Evaluated(returned_signal, counters) == [signal |-> returned_signal, diag |-> counters]

\* "min_sl <= sl_pips <= 80" of the momentum breakout, sl_dist = atr * 1.5.
breakout_band_ok(atr) ==
    momentum_min_sl_pips <= (atr * 15) \div 10 /\ (atr * 15) \div 10 <= max_sl_pips

\* "atr * 0.3 <= sl_dist <= atr * 4.0 and min_sl <= sl_pip <= 80" of the
\* momentum pullback.
pullback_band_ok(atr, sl_dist) ==
    /\ 3 * atr <= 10 * sl_dist /\ sl_dist <= 4 * atr
    /\ momentum_min_sl_pips <= sl_dist /\ sl_dist <= max_sl_pips

\* The pullback entry of _momentum_breakout and the end of the function.
momentum_pullback(x, before) ==
    IF x.pull_setup /\ x.pull_ok
    THEN IF pullback_band_ok(x.atr, x.sl_dist)
         THEN Evaluated(TRUE, before \o <<"signals_generated", "pullback_signals">>)
         ELSE Evaluated(FALSE, before \o <<"no_sl_valid", "no_pullback">>)
    ELSE Evaluated(FALSE, before \o <<"no_pullback">>)

\* _momentum_breakout: x holds the outcome of each test of the function for
\* the side of the trend (the BUY block in an uptrend, the SELL block in a
\* downtrend), the ATR and the stop distance of the pullback entry.
momentum_filters(x) ==
    IF ~x.long_enough THEN Evaluated(FALSE, <<>>)
    ELSE IF ~x.indicators_ok THEN Evaluated(FALSE, <<"total_checks", "no_h4_indicators">>)
    ELSE IF x.trend = "none" THEN Evaluated(FALSE, <<"total_checks", "no_h4_trend">>)
    ELSE IF x.breakout
      THEN IF ~x.rsi_ok THEN Evaluated(FALSE, <<"total_checks", "no_rsi">>)
           ELSE IF ~x.candle_ok THEN Evaluated(FALSE, <<"total_checks", "no_candle">>)
           ELSE IF breakout_band_ok(x.atr)
             THEN Evaluated(TRUE, <<"total_checks", "signals_generated", "breakout_signals">>)
           ELSE momentum_pullback(x, <<"total_checks", "no_sl_valid">>)
    ELSE momentum_pullback(x, <<"total_checks">>)

\* _london_breakout with strategy.london_retest on, after the range filter:
\* the retest entry on the side of the close, the raw breakout entry, and the
\* end of the block.
london_retest_filters(x, before) ==
    LET after_retest ==
            IF x.found /\ x.side # "inside" /\ x.dipped_bounced
            THEN IF x.trend_bad THEN <<"london_trend_filter">>
                 ELSE IF x.body_pct < 25 THEN <<"no_candle">>
                 ELSE IF x.band_ok THEN <<"signals_generated", "breakout_signals">>
                 ELSE <<"no_sl_valid">>
            ELSE <<>>
    IN  IF after_retest = <<"signals_generated", "breakout_signals">>
          THEN Evaluated(TRUE, before \o after_retest)
        ELSE IF x.side # "inside" /\ ~x.found /\ x.body_pct >= 50 /\ ~x.trend_bad /\ x.band_ok
          THEN Evaluated(TRUE, before \o after_retest \o <<"signals_generated", "pullback_signals">>)
        ELSE Evaluated(FALSE, before \o after_retest \o <<"london_no_break">>)

\* _london_breakout with strategy.london_retest off (SMC-enhanced breakout),
\* after the range filter.
london_smc_filters(x, before) ==
    IF x.side = "inside" THEN Evaluated(FALSE, before \o <<"london_no_break">>)
    ELSE IF x.trend_bad
      THEN Evaluated(FALSE, before \o <<"london_trend_filter", "london_no_break">>)
    ELSE IF x.body_pct < 30
      THEN Evaluated(FALSE, before \o <<"no_candle", "london_no_break">>)
    ELSE IF ~x.confluence_ok
      THEN Evaluated(FALSE, before \o <<"smc_no_confluence", "london_no_break">>)
    ELSE IF x.band_ok
      THEN Evaluated(TRUE, before \o <<"signals_generated", "breakout_signals">>)
    ELSE Evaluated(FALSE, before \o <<"no_sl_valid">>)

\* _london_breakout: x holds the outcome of each test of the function.
london_filters(x) ==
    IF ~x.long_enough THEN Evaluated(FALSE, <<>>)
    ELSE IF ~x.indicators_ok THEN Evaluated(FALSE, <<"total_checks", "no_h4_indicators">>)
    ELSE IF ~x.in_session THEN Evaluated(FALSE, <<"total_checks", "london_wrong_hour">>)
    ELSE IF ~x.range_ok THEN Evaluated(FALSE, <<"total_checks", "london_no_range">>)
    ELSE IF x.retest THEN london_retest_filters(x, <<"total_checks">>)
    ELSE london_smc_filters(x, <<"total_checks">>)

\* The tests of one _momentum_breakout evaluation: ATR of 2, 20 and 60 pips,
\* pullback stop distances of 5, 30 and 90 pips.  The pullback stop is at
\* least half an ATR below the entry.
MomentumInputs ==
    { x \in [long_enough : BOOLEAN, indicators_ok : BOOLEAN, trend : {"up", "down", "none"},
             breakout : BOOLEAN, rsi_ok : BOOLEAN, candle_ok : BOOLEAN,
             atr : {20, 200, 600}, pull_setup : BOOLEAN, pull_ok : BOOLEAN,
             sl_dist : {50, 300, 900}] :
        2 * x.sl_dist >= x.atr }

\* The tests of one _london_breakout evaluation; body_pct is the body of the
\* last candle in percent of its range.
LondonInputs ==
    [long_enough : BOOLEAN, indicators_ok : BOOLEAN, in_session : BOOLEAN, range_ok : BOOLEAN,
     retest : BOOLEAN, side : {"above", "below", "inside"}, found : BOOLEAN,
     dipped_bounced : BOOLEAN, trend_bad : BOOLEAN, body_pct : {20, 40, 60},
     confluence_ok : BOOLEAN, band_ok : BOOLEAN]

\* ------------------------------------------------------------------------
\* Specification SpecFn: the sizing, entry and signal functions applied to
\* inputs drawn from bounded sets
\* ------------------------------------------------------------------------
\* Balances in cents: -$100, $0, $100, $10,000, $14,500, $20,000.
LotBalances == {-10000, 0, 10000, 1000000, 1450000, 2000000}
\* Risk percentages in thousandths of a percent: 0, 0.25, 0.5, 1.0.
LotRiskPcts == {0, weekly_pause_risk, risk_pct_reduced, risk_pct_normal}
\* Stop distances in points: -50, 0, 0.1, 15, 50 and 80 pips.
LotSlPips == {-500, 0, 1, 150, 500, 800}

FnDriver == [BacktestDriver EXCEPT !.mode = "function"]

\* Equity readings of the first rule_check: the initial balance, and 11% below it.
EntryEquities == {initial_balance, (initial_balance * 89) \div 100}

\* The engine after one rule_check at each equity: NORMAL or KILL_SWITCH.
EntryEngines ==
    { rule_check(ComplianceEngine(StartDay), StartDay, initial_balance, q, spread_pips).eng :
        q \in EntryEquities }

InitFn ==
    /\ wall_day = StartDay
    /\ eng \in EntryEngines
    /\ gw = update_price(DryRunGateway, BasePrice)
    /\ drv = FnDriver
    /\ cfg = TradeManagement(FALSE, FALSE, FALSE)
    /\ call = NoCall

\* calculate_lot_size(balance, risk_pct, sl_pips, pip_value_per_lot)
SizeCall ==
    /\ drv.mode = "function"
    /\ \E balance \in LotBalances, risk_pct \in LotRiskPcts, sl_pips \in LotSlPips :
         call' = [NoCall EXCEPT !.op = "calculate_lot_size", !.balance = balance,
                                !.risk = risk_pct, !.sl_pips = sl_pips,
                                !.lots = calculate_lot_size(balance, risk_pct, sl_pips)]
    /\ UNCHANGED <<eng, gw, drv, cfg, wall_day>>

\* The entry steps of run_backtest (validate, size, execute) on a signal.
BtEntryCall ==
    /\ drv.mode = "function"
    /\ \E kind \in SignalKinds :
       \E signal \in {signal_at(kind, gw.last_ask, gw.last_bid)} :
       \E r \in {bt_entry(eng, gw, signal, wall_day)} :
         /\ eng' = r.eng
         /\ gw' = r.gw
         /\ call' = [NoCall EXCEPT !.op = "bt_entry", !.balance = gw.balance,
                                   !.risk = get_risk_percent(eng),
                                   !.sl_pips = signal.sl_pips, !.outcome = r.outcome,
                                   !.signal = signal]
    /\ UNCHANGED <<drv, cfg, wall_day>>

\* The entry steps of run_cycle (validate, size, spread guard, execute).
RtEntryCall ==
    /\ drv.mode = "function"
    /\ \E kind \in SignalKinds :
       \E signal \in {signal_at(kind, gw.last_ask, gw.last_bid)} :
       \E r \in {rt_entry(eng, gw, signal, wall_day)} :
         /\ eng' = r.eng
         /\ gw' = r.gw
         /\ call' = [NoCall EXCEPT !.op = "rt_entry", !.balance = gw.balance,
                                   !.risk = get_risk_percent(eng),
                                   !.sl_pips = signal.sl_pips, !.outcome = r.outcome,
                                   !.signal = signal]
    /\ UNCHANGED <<drv, cfg, wall_day>>

\* The range the close is compared with: 30 pips wide, its high at BasePrice.
RangeHigh == BasePrice
RangeLow == BasePrice - 300

\* Last closed H1 bars: a bullish close 20 pips above the range that dipped
\* back to it, a bearish close 20 pips below it, and a bar inside the range.
SigBars ==
    { [high |-> RangeHigh + 220, low |-> RangeHigh - 10, close |-> RangeHigh + 200, atr |-> 100],
      [high |-> RangeLow + 10, low |-> RangeLow - 220, close |-> RangeLow - 200, atr |-> 100],
      [high |-> RangeHigh - 50, low |-> RangeLow + 50, close |-> RangeHigh - 100, atr |-> 100] }

\* Live bids when get_signal is called: none (the backtest passes no quote),
\* at the close of each bar, and 60 pips beyond the far side of the range.
SigBids == {0} \cup {bar.close : bar \in SigBars} \cup {RangeLow - 600, RangeHigh + 600}

\* get_signal(h1, h4, cfg, current_ask, current_bid)
SignalCall ==
    /\ drv.mode = "function"
    /\ \E london \in BOOLEAN, retest \in BOOLEAN, found \in BOOLEAN, b0 \in SigBars, bid \in SigBids :
         LET ask == IF bid > 0 THEN bid + spread_pips ELSE 0
         IN  call' = [NoCall EXCEPT
                        !.op = "get_signal", !.london = london, !.ask = ask, !.bid = bid,
                        !.signal = get_signal(london, b0, RangeHigh, RangeLow,
                                              retest, found, ask, bid)]
    /\ UNCHANGED <<eng, gw, drv, cfg, wall_day>>

NextFn == SizeCall \/ BtEntryCall \/ RtEntryCall \/ SignalCall

SpecFn == InitFn /\ [][NextFn]_vars

\* ------------------------------------------------------------------------
\* Specification SpecDiag: one evaluation of get_signal's filters on each
\* combination of test outcomes
\* ------------------------------------------------------------------------
FilterDrivers ==
    { [mode |-> "filters", london |-> FALSE, x |-> x] : x \in MomentumInputs }
      \cup { [mode |-> "filters", london |-> TRUE, x |-> x] : x \in LondonInputs }

InitDiag ==
    /\ wall_day = StartDay
    /\ eng = ComplianceEngine(wall_day)
    /\ gw = DryRunGateway
    /\ drv \in FilterDrivers
    /\ cfg = TradeManagement(FALSE, FALSE, FALSE)
    /\ call = NoCall

\* get_signal with strategy.london_breakout off: the filters and diag.
MomentumFiltersCall ==
    /\ drv.mode = "filters" /\ ~drv.london /\ call.op = "init"
    /\ \E r \in {momentum_filters(drv.x)} :
         call' = [NoCall EXCEPT !.op = "get_signal_filters", !.london = FALSE,
                                !.ret = IF drv.x.long_enough THEN "evaluated" ELSE "too_short",
                                !.outcome = IF r.signal THEN "signal" ELSE "none",
                                !.diag = r.diag]
    /\ UNCHANGED <<eng, gw, drv, cfg, wall_day>>

\* get_signal with strategy.london_breakout on: the filters and diag.
LondonFiltersCall ==
    /\ drv.mode = "filters" /\ drv.london /\ call.op = "init"
    /\ \E r \in {london_filters(drv.x)} :
         call' = [NoCall EXCEPT !.op = "get_signal_filters", !.london = TRUE,
                                !.ret = IF drv.x.long_enough THEN "evaluated" ELSE "too_short",
                                !.outcome = IF r.signal THEN "signal" ELSE "none",
                                !.diag = r.diag]
    /\ UNCHANGED <<eng, gw, drv, cfg, wall_day>>

NextDiag == MomentumFiltersCall \/ LondonFiltersCall

SpecDiag == InitDiag /\ [][NextDiag]_vars

\* ------------------------------------------------------------------------
\* core/indicators.py: detect_order_blocks, one loop iteration per step
\* (specification SpecOB)
\* ------------------------------------------------------------------------
swing_len == 10                 \* default of the swing_len parameter
displacement_atr_tenths == 12   \* "body > cur_atr * 1.2"
ob_atr == 100                   \* the atr column, 10 pips on every bar
MaxObBars == 4                  \* bars processed by the loop after the first swing_len

\* NaN in the ob_* columns.
NoZone == [top |-> 0, bot |-> 0, src |-> -1]

\* The first swing_len bars of the frame: candles that are neither bullish
\* nor bearish.
FlatBar == [open |-> BasePrice, high |-> BasePrice + 10, low |-> BasePrice - 10, close |-> BasePrice]

\* The price mirrored around BasePrice, and a bar mirrored: bullish becomes
\* bearish, the high becomes the low.
Mirror(price) == 2 * BasePrice - price
MirrorBar(bar) ==
    [open |-> Mirror(bar.open), high |-> Mirror(bar.low), low |-> Mirror(bar.high),
     close |-> Mirror(bar.close)]

\* Bars fed to the loop: a small bearish candle, a bullish displacement
\* leaving it, a small bullish bar above it, a bullish displacement that
\* wicks back into it, and their mirror images.
ObUpBars ==
    { [open |-> BasePrice + 50,  high |-> BasePrice + 60,  low |-> BasePrice - 10,  close |-> BasePrice],
      [open |-> BasePrice,       high |-> BasePrice + 210, low |-> BasePrice - 5,   close |-> BasePrice + 200],
      [open |-> BasePrice + 200, high |-> BasePrice + 260, low |-> BasePrice + 190, close |-> BasePrice + 250],
      [open |-> BasePrice + 250, high |-> BasePrice + 410, low |-> BasePrice + 50,  close |-> BasePrice + 400] }
ObBars == ObUpBars \cup { MirrorBar(bar) : bar \in ObUpBars }

is_bullish_displacement(bar) ==
    bar.close > bar.open /\ (bar.close - bar.open) * 10 > ob_atr * displacement_atr_tenths
is_bearish_displacement(bar) ==
    bar.close < bar.open /\ (bar.open - bar.close) * 10 > ob_atr * displacement_atr_tenths

\* "for j in range(i - 1, max(i - swing_len, 0) - 1, -1)": the 0-based indexes
\* walked back from bar i, as positions of the sequence bars (index + 1).
WalkBack(i) == (Max(i - swing_len, 0) + 1)..i

\* The zone of the last candle before bar i that is bearish (bullish when
\* ~bearish), <<>> when the walk finds none.  top and bot are what the code
\* appends; src is the index j of the source candle, kept to name the zone.
source_zone(bars, i, bearish) ==
    LET found == { p \in WalkBack(i) : IF bearish THEN bars[p].close < bars[p].open
                                                  ELSE bars[p].close > bars[p].open }
    IN  IF found = {} THEN <<>>
        ELSE LET p == CHOOSE q \in found : \A r \in found : r <= q
             IN  <<[top |-> bars[p].high, bot |-> bars[p].low, src |-> p - 1]>>

Dist(a, b) == IF a >= b THEN a - b ELSE b - a

\* min(active, key=lambda x: abs(closes[i] - x[0])): the first of the nearest.
nearest_ob(active, close) ==
    IF active = <<>> THEN NoZone
    ELSE active[CHOOSE k \in 1..Len(active) :
                  \A m \in 1..Len(active) :
                     \/ Dist(close, active[k].top) < Dist(close, active[m].top)
                     \/ (Dist(close, active[k].top) = Dist(close, active[m].top) /\ k <= m)]

SeqRange(zs) == { zs[k] : k \in 1..Len(zs) }

\* The body of the loop for bar i = Len(d.bars), the bar just appended to the
\* frame: append new zones, mitigate, record the nearest.  dropped_bull and
\* dropped_bear collect the zones that were active before this bar and that
\* its mitigation removed.
order_block_step(d, bar) ==
    LET i == Len(d.bars)
        bars == Append(d.bars, bar)
        bull1 == IF is_bullish_displacement(bar)
                 THEN d.active_bull_obs \o source_zone(bars, i, TRUE) ELSE d.active_bull_obs
        bear1 == IF is_bearish_displacement(bar)
                 THEN d.active_bear_obs \o source_zone(bars, i, FALSE) ELSE d.active_bear_obs
        bull2 == SelectSeq(bull1, LAMBDA z : bar.low <= z.top)
        bear2 == SelectSeq(bear1, LAMBDA z : bar.high >= z.bot)
    IN  [d EXCEPT !.bars = bars,
                  !.active_bull_obs = bull2,
                  !.active_bear_obs = bear2,
                  !.ob_bull = Append(@, nearest_ob(bull2, bar.close)),
                  !.ob_bear = Append(@, nearest_ob(bear2, bar.close)),
                  !.dropped_bull = @ \cup (SeqRange(d.active_bull_obs) \ SeqRange(bull2)),
                  !.dropped_bear = @ \cup (SeqRange(d.active_bear_obs) \ SeqRange(bear2))]

\* detect_order_blocks before its loop, on a frame whose first swing_len bars
\* are flat.
ObDriver ==
    [mode |-> "order_blocks",
     bars |-> [k \in 1..swing_len |-> FlatBar],
     active_bull_obs |-> <<>>, active_bear_obs |-> <<>>,
     ob_bull |-> [k \in 1..swing_len |-> NoZone],
     ob_bear |-> [k \in 1..swing_len |-> NoZone],
     dropped_bull |-> {}, dropped_bear |-> {}]

InitOB ==
    /\ wall_day = StartDay
    /\ eng = ComplianceEngine(wall_day)
    /\ gw = DryRunGateway
    /\ drv = ObDriver
    /\ cfg = TradeManagement(FALSE, FALSE, FALSE)
    /\ call = NoCall

\* One iteration of "for i in range(swing_len, n)".
ObBarStep ==
    /\ drv.mode = "order_blocks"
    /\ Len(drv.bars) < swing_len + MaxObBars
    /\ \E bar \in ObBars : drv' = order_block_step(drv, bar)
    /\ UNCHANGED <<eng, gw, cfg, wall_day, call>>

NextOB == ObBarStep

SpecOB == InitOB /\ [][NextOB]_vars

\* ------------------------------------------------------------------------
\* core/indicators.py: detect_fvg, one loop iteration per step
\* (specification SpecFvg)
\* ------------------------------------------------------------------------
MaxFvgBars == 3                 \* bars of the frame
fvg_body_tenths == 3            \* "mid_body / mid_range > 0.3"

\* Row i of the fvg_* columns; 0 stands for NaN in the bound columns.
NoGap ==
    [fvg_bull |-> FALSE, fvg_bull_top |-> 0, fvg_bull_bot |-> 0,
     fvg_bear |-> FALSE, fvg_bear_top |-> 0, fvg_bear_bot |-> 0]

\* Candles of the frame: a low candle, middle candles with a body of 20%,
\* exactly 30% and 50% of the range and one without range, a high candle
\* that leaves a gap above the low one, and their mirror images.
FvgUpBars ==
    { [open |-> BasePrice,      high |-> BasePrice + 10, low |-> BasePrice,      close |-> BasePrice + 5],
      [open |-> BasePrice + 20, high |-> BasePrice + 30, low |-> BasePrice + 20, close |-> BasePrice + 22],
      [open |-> BasePrice + 20, high |-> BasePrice + 30, low |-> BasePrice + 20, close |-> BasePrice + 23],
      [open |-> BasePrice + 20, high |-> BasePrice + 30, low |-> BasePrice + 20, close |-> BasePrice + 25],
      [open |-> BasePrice + 20, high |-> BasePrice + 20, low |-> BasePrice + 20, close |-> BasePrice + 20],
      [open |-> BasePrice + 40, high |-> BasePrice + 50, low |-> BasePrice + 40, close |-> BasePrice + 45] }
FvgBars == FvgUpBars \cup { MirrorBar(bar) : bar \in FvgUpBars }

\* "mid_range > 0 and mid_body / mid_range > 0.3" for the middle candle.
mid_candle_big(mid) ==
    LET mid_body == Dist(mid.close, mid.open)
        mid_range == mid.high - mid.low
    IN  mid_range > 0 /\ mid_body * 10 > mid_range * fvg_body_tenths

\* The body of the loop for bar i = Len(d.bars), the bar just appended to the
\* frame; rows 0 and 1 keep the zeros and NaN the columns start with.
fvg_step(d, bar) ==
    LET i == Len(d.bars)
        bars == Append(d.bars, bar)
        first == bars[i - 1]
        mid == bars[i]
        bull == bar.low > first.high /\ mid_candle_big(mid)
        bear == bar.high < first.low /\ mid_candle_big(mid)
        row == IF i < 2 THEN NoGap
               ELSE [fvg_bull |-> bull,
                     fvg_bull_top |-> IF bull THEN bar.low ELSE 0,
                     fvg_bull_bot |-> IF bull THEN first.high ELSE 0,
                     fvg_bear |-> bear,
                     fvg_bear_top |-> IF bear THEN first.low ELSE 0,
                     fvg_bear_bot |-> IF bear THEN bar.high ELSE 0]
    IN  [d EXCEPT !.bars = bars, !.fvg = Append(@, row)]

\* detect_fvg before its loop, the frame growing bar by bar.
FvgDriver == [mode |-> "fvg", bars |-> <<>>, fvg |-> <<>>]

InitFvg ==
    /\ wall_day = StartDay
    /\ eng = ComplianceEngine(wall_day)
    /\ gw = DryRunGateway
    /\ drv = FvgDriver
    /\ cfg = TradeManagement(FALSE, FALSE, FALSE)
    /\ call = NoCall

\* Row i of the frame, as "for i in range(2, n)" and the initial columns
\* leave it.
FvgBarStep ==
    /\ drv.mode = "fvg"
    /\ Len(drv.bars) < MaxFvgBars
    /\ \E bar \in FvgBars : drv' = fvg_step(drv, bar)
    /\ UNCHANGED <<eng, gw, cfg, wall_day, call>>

NextFvg == FvgBarStep

SpecFvg == InitFvg /\ [][NextFvg]_vars

\* ------------------------------------------------------------------------
\* Claims about the ComplianceEngine (specification Spec)
\* ------------------------------------------------------------------------

\* C1: once state is KILL_SWITCH, a calendar-day advance leaves it KILL_SWITCH:
\* an advance_time call with any date and balance, and the wall-clock day check
\* that opens rule_check, for any date and balance.
C1_KillSwitchSurvivesDayAdvance ==
    [][ eng.state = "KILL_SWITCH" =>
          /\ (call'.op = "advance_time" => eng'.state = "KILL_SWITCH")
          /\ \A d \in 1..(MaxDay + 1), b \in Balances :
                check_new_day_realtime(eng, d, b).state = "KILL_SWITCH" ]_vars

\* C1 witness: a day rollover was applied by advance_time to an engine in
\* KILL_SWITCH (the counters were reset) and the state is still KILL_SWITCH.
C1_Witness ==
    /\ call.op = "advance_time"
    /\ call.rolled
    /\ eng.state = "KILL_SWITCH"

\* C2 (as claimed): once the engine is in KILL_SWITCH, every later rule_check
\* leaves it in KILL_SWITCH and returns a block reason.
C2_KillSwitchNoRecovery ==
    [][ (eng.state = "KILL_SWITCH" /\ call'.op = "rule_check") =>
          (eng'.state = "KILL_SWITCH" /\ call'.ret # "") ]_vars

\* C4 (as claimed): on_trade_closed adds one to consec_losses when pnl < 0 and
\* resets it to zero when pnl >= 0.
C4_LossStreakCounter ==
    [][ call'.op = "on_trade_closed" =>
          eng'.consec_losses = (IF call'.pnl < 0 THEN eng.consec_losses + 1 ELSE 0) ]_vars

\* The state the priority list of the claim gives for the engine's fields
\* after a rule_check(balance, equity).
PriorityState(e, balance, equity) ==
    IF (initial_balance - equity) * 100 >= max_total_dd_pct * initial_balance
      THEN "KILL_SWITCH"
    ELSE IF trailing_dd_enabled
            /\ (e.high_water_mark - equity) * 100 >= trailing_dd_pct * e.high_water_mark
      THEN "WEEKLY_PAUSE"
    ELSE IF \/ (e.today_closed_pnl + equity - balance) * 100
                   < -(e.prev_eod_balance * max_daily_loss_pct)
            \/ e.trades_today >= max_trades_per_day
            \/ e.consec_losses >= max_consec_losses
      THEN "DAILY_PAUSE"
    ELSE IF e.consec_losses >= reduce_risk_after
      THEN "REDUCED"
    ELSE "NORMAL"

\* C5: after every rule_check the state is the first condition that holds in
\* the order KILL_SWITCH, WEEKLY_PAUSE, DAILY_PAUSE, REDUCED, NORMAL.
C5_StatePriority ==
    call.op = "rule_check" => eng.state = PriorityState(eng, call.balance, call.equity)

\* C5 witness: a rule_check where both the trailing drawdown and the daily
\* loss conditions hold, and the higher-priority WEEKLY_PAUSE is the state.
C5_Witness ==
    /\ call.op = "rule_check"
    /\ eng.state = "WEEKLY_PAUSE"
    /\ (eng.today_closed_pnl + call.equity - call.balance) * 100
           < -(eng.prev_eod_balance * max_daily_loss_pct)

\* The state table of the claim (DAILY_PAUSE has no entry: no bound from it).
StateTableRisk(st) ==
    IF st = "KILL_SWITCH" THEN 0
    ELSE IF st = "WEEKLY_PAUSE" THEN weekly_pause_risk
    ELSE IF st = "REDUCED" THEN risk_pct_reduced
    ELSE risk_pct_normal

\* The drawdown-from-peak cap of the claim: tenths of thousandths of a percent.
PeakDdCapTimes10(e) ==
    IF (e.high_water_mark - e.last_equity) * 100 >= dd_tier2_pct * e.high_water_mark
      THEN risk_pct_reduced * dd_tier2_factor_tenths
    ELSE IF (e.high_water_mark - e.last_equity) * 100 >= dd_tier1_pct * e.high_water_mark
      THEN risk_pct_reduced * 10
    ELSE risk_pct_normal * 10

\* C6 (as claimed): get_risk_percent() is at most the state table's percentage
\* and at most the drawdown-from-peak cap, in every state.
C6_RiskIsMoreConservative ==
    /\ get_risk_percent(eng) <= StateTableRisk(eng.state)
    /\ get_risk_percent(eng) * 10 <= PeakDdCapTimes10(eng)

\* C9 (as claimed): a rule_check at which today's realized plus floating P&L
\* is below the daily-loss limit returns a block reason.
C9_DailyLossBlocks ==
    (/\ call.op = "rule_check"
     /\ (eng.today_closed_pnl + call.equity - call.balance) * 100
            < -(eng.prev_eod_balance * max_daily_loss_pct))
    => call.ret # ""

\* ------------------------------------------------------------------------
\* Claims about the drivers (specifications SpecBT, SpecRT, SpecDrivers)
\* ------------------------------------------------------------------------
\* A driver cycle that read prices has just ended and the loop goes on.
CycleEnded ==
    /\ drv.i > 0 /\ drv.pc = "loop"
    /\ drv.outcome \notin {"disconnected", "insufficient_data"}

\* C3: whenever a driver cycle (a backtest bar or a real-time cycle) ends with
\* the total drawdown of the current equity from the initial balance at or
\* above max_total_dd_pct, the compliance state is KILL_SWITCH and no position
\* is open, whichever filter ended the cycle.
C3_KillSwitchEveryCycle ==
    (CycleEnded /\ TotalDdAtLeast(update_equity(gw).equity, max_total_dd_pct))
        => (eng.state = "KILL_SWITCH" /\ ~has_position(gw))

\* C7: in a backtest no more than max_trades_per_day trades are opened on
\* bars of one calendar day.
C7_MaxTradesPerBarDay ==
    drv.mode = "backtest" => drv.opened_on_bar_day <= max_trades_per_day

\* C8: in a backtest the compliance calendar follows the bar timestamps only:
\* after every bar the engine's current_day is the date of that bar.
C8_CalendarFollowsBars ==
    (drv.mode = "backtest" /\ drv.i > 0) => eng.current_day = drv.bar_day

\* C10: in both drivers the gateway never holds more than one open position,
\* and open_trade is only invoked when has_position() is false.
C10_SinglePosition ==
    /\ Len(gw.positions) <= 1
    /\ drv.outcome = "trades_opened" => ~drv.had_position

\* A second trade was opened after an earlier one closed.
C10_Witness ==
    /\ drv.outcome = "trades_opened"
    /\ Len(gw.positions) = 1
    /\ Len(gw.trade_history) > 0

\* ------------------------------------------------------------------------
\* Claims about check_sl_tp (specification SpecPos)
\* ------------------------------------------------------------------------
\* C11: once be_activated is true, no call of check_sl_tp moves the stop of a
\* position that stays open away from the trade: a long position's sl never
\* decreases, a short position's sl never increases.
C11_StopOnlyTightens ==
    [][\A k \in 1..Len(gw.positions) :
          LET pos == gw.positions[k]
          IN  (pos.be_activated /\ HasTicket(gw', pos.ticket))
                => IF pos.direction > 0
                   THEN PosOf(gw', pos.ticket).sl >= pos.sl
                   ELSE PosOf(gw', pos.ticket).sl <= pos.sl]_vars

StopReasons == {"SL_HIT", "BE_HIT", "TRAIL_HIT"}

\* The bar reaches both the stop and the target of p (a position or a ledger row).
BothBreached(p, bar) ==
    IF p.direction > 0 THEN bar.low <= p.sl /\ bar.high >= p.tp
    ELSE bar.high >= p.sl /\ bar.low <= p.tp

BreakevenDue(pos, bar) ==
    IF pos.direction > 0
    THEN bar.high * 10 >= pos.entry * 10 + pos.sl_pips * breakeven_r
           /\ pos.entry + pip_size > pos.sl
    ELSE bar.low * 10 <= pos.entry * 10 - pos.sl_pips * breakeven_r
           /\ pos.entry - pip_size < pos.sl

BreakevenStop(pos) == pos.entry + pos.direction * pip_size

\* The stop the trailing step of the same bar proposes.
TrailedStop(pos, bar) ==
    IF pos.direction > 0 THEN bar.high - (bar.atr * trailing_atr_mult) \div 10
    ELSE bar.low + (bar.atr * trailing_atr_mult) \div 10

\* The positions with breakeven enabled and not yet active, and the bars that
\* leave them open without a partial close firing.
BreakevenCases ==
    { <<k, bar>> \in (1..Len(gw.positions)) \X PosBars :
        /\ cfg.breakeven_enabled
        /\ ~gw.positions[k].be_activated
        /\ HasTicket(check_sl_tp(gw, bar, cfg, wall_day), gw.positions[k].ticket)
        /\ ~PosOf(check_sl_tp(gw, bar, cfg, wall_day), gw.positions[k].ticket).partial_closed }

\* C13 as stated: after check_sl_tp the stop is entry +/- 1 pip and
\* be_activated is true exactly when the breakeven condition holds on the bar,
\* otherwise stop and be_activated are unchanged.
C13_BreakevenStopIsOnePip ==
    \A kb \in BreakevenCases :
        LET pos == gw.positions[kb[1]]
            after == PosOf(check_sl_tp(gw, kb[2], cfg, wall_day), pos.ticket)
        IN  IF BreakevenDue(pos, kb[2])
            THEN after.be_activated /\ after.sl = BreakevenStop(pos)
            ELSE ~after.be_activated /\ after.sl = pos.sl

\* C13 amended: be_activated is true after check_sl_tp exactly when the
\* breakeven condition holds on the bar; the stop is then entry +/- 1 pip, or
\* the stop the trailing step of the same bar moved it on to; otherwise stop
\* and be_activated are unchanged.  The spec's example: entry 1.1000, stop
\* 1.0950, breakeven_r 1.0, high 1.1052 gives stop 1.1001, high 1.1049 leaves it.
C13_BreakevenActivation ==
    /\ \A kb \in BreakevenCases :
          LET pos == gw.positions[kb[1]]
              after == PosOf(check_sl_tp(gw, kb[2], cfg, wall_day), pos.ticket)
          IN  IF BreakevenDue(pos, kb[2])
              THEN /\ after.be_activated
                   /\ \/ after.sl = BreakevenStop(pos)
                      \/ /\ cfg.trailing_enabled
                         /\ after.sl = TrailedStop(pos, kb[2])
                         /\ (after.sl - BreakevenStop(pos)) * pos.direction > 0
              ELSE ~after.be_activated /\ after.sl = pos.sl
    /\ \A high \in {110490, 110520} :
          LET pos == [ticket |-> first_ticket, direction |-> 1, entry |-> 110000,
                      sl |-> 109500, tp |-> 111000, lots |-> 1, sl_pips |-> 500,
                      be_activated |-> FALSE, partial_closed |-> FALSE]
              after == breakeven_step(pos, [high |-> high, low |-> 110000, atr |-> 200],
                                      TradeManagement(FALSE, TRUE, FALSE))
          IN  IF high = 110520 THEN after.be_activated /\ after.sl = 110010
              ELSE ~after.be_activated /\ after.sl = 109500

\* A position whose breakeven activates on some bar, and one on which it does
\* not, both left open by the bar.
C13_Witness ==
    /\ \E kb \in BreakevenCases : BreakevenDue(gw.positions[kb[1]], kb[2])
    /\ \E kb \in BreakevenCases : ~BreakevenDue(gw.positions[kb[1]], kb[2])

\* ------------------------------------------------------------------------
\* Claims about the order of steps in the drivers
\* ------------------------------------------------------------------------
\* C14: in a backtest bar whose last close by check_sl_tp is a loss and whose
\* rule_check is evaluated, the engine the gate leaves has a loss streak that
\* includes that close.
C14_GateSeesBarExits ==
    [][(/\ drv.mode = "backtest" /\ drv'.i = drv.i + 1
        /\ drv'.outcome \notin {"h4_insufficient", "session_blocked"}
        /\ drv'.trades_total > drv.trades_total
        /\ gw'.trade_history[drv'.trades_total].pnl < 0)
          => eng'.consec_losses >= 1]_vars

RECURSIVE SumPnl(_)
SumPnl(history) ==
    IF history = <<>> THEN 0 ELSE Head(history).pnl + SumPnl(Tail(history))

\* C15: in real-time mode, when a cycle evaluates rule_check on the day the
\* bot started, the engine it leaves has folded every close already in the
\* ledger: today_closed_pnl is the sum of their P&L and a last losing close
\* shows in consec_losses.
C15_RealtimeClosesFolded ==
    [][(/\ drv.mode = "realtime" /\ drv'.i = drv.i + 1
        /\ drv'.outcome \notin {"disconnected", "insufficient_data", "no_new_bar"}
        /\ wall_day = StartDay
        /\ Len(gw.trade_history) > 0)
          => /\ eng'.today_closed_pnl = SumPnl(gw.trade_history)
             /\ gw.trade_history[Len(gw.trade_history)].pnl < 0
                  => eng'.consec_losses >= 1]_vars


\* ------------------------------------------------------------------------
\* Determinism of the backtest
\* ------------------------------------------------------------------------
\* The wall-clock dates a backtest can run on.
WallDays == {StartDay, StartDay + 1}

\* One pass of the run_backtest loop body over a bar, read at wall clock w.
BacktestStepAt(w, bar_day, bar_hour, bar, h4_len, signal) ==
    LET m == bt_manage(eng, gw, drv, bar_day, bar, w)
    IN  bt_decide(m.eng, m.gw, w, bar_hour, h4_len, signal)

\* C16: from the same backtest state, the same next bar gives the same trade
\* ledger (every field of every row, open and close timestamps included) and
\* the same compliance decision, whatever the wall clock is.
C16_BacktestIgnoresWallClock ==
    (drv.mode = "backtest" /\ drv.pc = "loop" /\ drv.i < MaxBars) =>
        \A bar_day \in BarDays, bar_hour \in Hours, bar \in Bars, h4_len \in H4Lens :
          \A kind \in SignalKinds, w \in WallDays :
            (/\ ValidBar(bar)
             /\ bar_day > drv.bar_day \/ (bar_day = drv.bar_day /\ bar_hour > drv.bar_hour))
              => LET signal == signal_at(kind, bar.close, bar.close)
                     a == BacktestStepAt(wall_day, bar_day, bar_hour, bar, h4_len, signal)
                     b == BacktestStepAt(w, bar_day, bar_hour, bar, h4_len, signal)
                 IN  /\ a.gw.trade_history = b.gw.trade_history
                     /\ a.outcome = b.outcome


\* ------------------------------------------------------------------------
\* Claims about position sizing (specification SpecFn)
\* ------------------------------------------------------------------------
Degenerate(c) == c.balance <= 0 \/ c.risk <= 0 \/ c.sl_pips <= 0

\* floor((balance * risk_pct / 100) / (sl_pips * pip_value_per_lot) / lot_step),
\* in exact arithmetic, clamped to [min_lot, max_lot].
FloorClamped(c) ==
    Max(min_lot, Min(max_lot, (c.balance * c.risk) \div (10000 * c.sl_pips * pip_value_per_lot)))

\* C17: for positive balance, risk percentage and stop distance,
\* calculate_lot_size returns the risk-based size floored to the lot step and
\* clamped to [min_lot, max_lot], and so a value inside [min_lot, max_lot].
C17_FlooredAndClamped ==
    (call.op = "calculate_lot_size" /\ ~Degenerate(call)) =>
        /\ call.lots = FloorClamped(call)
        /\ min_lot <= call.lots /\ call.lots <= max_lot

\* The call calculate_lot_size(balance=10000, risk_pct=1, sl_pips=50,
\* pip_value_per_lot=10, lot_step=0.01) has returned.
ExampleSizing ==
    /\ call.op = "calculate_lot_size"
    /\ call.balance = 1000000 /\ call.risk = 1000 /\ call.sl_pips = 500

\* C18 as stated: the example call returns 0.02 lot.
C18_ExampleReturnsTwoHundredths == ExampleSizing => call.lots = 2

\* C18: the example call returns 0.20 lot, which is $100 of risk over 50 pips
\* at $10 per pip per lot.
C18_ExampleReturnsTwentyHundredths == ExampleSizing => call.lots = 20

C18_Witness == ExampleSizing /\ call.lots = 20

EntryOps == {"bt_entry", "rt_entry"}

\* C19: calculate_lot_size returns zero exactly on a degenerate input
\* (balance, risk percentage or stop distance not positive), and an entry in
\* either driver whose sizing input is degenerate, the KILL_SWITCH risk of 0
\* included, opens nothing: the gateway and trades_today stay as they were.
C19_ZeroSizeIsSkip ==
    [][ /\ call'.op = "calculate_lot_size" => (call'.lots = 0 <=> Degenerate(call'))
        /\ (call'.op \in EntryOps /\ Degenerate(call')) =>
              /\ gw' = gw
              /\ eng'.trades_today = eng.trades_today
              /\ call'.outcome # "trades_opened" ]_vars

C19_Witness ==
    /\ call.op = "bt_entry" /\ call.outcome = "lot_zero"
    /\ eng.state = "KILL_SWITCH" /\ call.risk = 0 /\ call.sl_pips > 0
    /\ gw.positions = <<>> /\ eng.trades_today = 0


\* ------------------------------------------------------------------------
\* Claims about the signals (specification SpecFn)
\* ------------------------------------------------------------------------
\* The signed distance from entry to stop, positive on the losing side.
SignedSlDist(sig) ==
    IF sig.direction > 0 THEN sig.entry - sig.sl ELSE sig.sl - sig.entry

\* C20: every Signal get_signal returns, for either strategy and any bar and
\* quotes, has its entry strictly between stop and target in the direction of
\* the trade, and a signed stop distance inside the [min_sl_pips, 80] pip band.
C20_SignalWellFormed ==
    (call.op = "get_signal" /\ ~call.signal.none) =>
        LET sig == call.signal
            lo == IF call.london THEN london_min_sl_pips ELSE momentum_min_sl_pips
        IN  /\ sig.direction \in {1, -1}
            /\ validate_sl_tp(sig.entry, sig.sl, sig.tp, sig.direction)
            /\ lo <= SignedSlDist(sig) /\ SignedSlDist(sig) <= max_sl_pips


\* ------------------------------------------------------------------------
\* Claims about the entry steps of the drivers (specification SpecFn)
\* ------------------------------------------------------------------------
ValidGeometry(sig) == validate_sl_tp(sig.entry, sig.sl, sig.tp, sig.direction)

\* C21: in both drivers a position is opened only for a signal that passes
\* validate_sl_tp, and on a signal that fails it the entry steps end with the
\* gateway (positions, balance) and the compliance engine as they were.
C21_InvalidSignalNeverSubmitted ==
    [][ call'.op \in EntryOps =>
          /\ Len(gw'.positions) > Len(gw.positions) => ValidGeometry(call'.signal)
          /\ call'.outcome = "trades_opened" => ValidGeometry(call'.signal)
          /\ (~call'.signal.none /\ ~ValidGeometry(call'.signal)) =>
                (gw' = gw /\ eng' = eng) ]_vars

C21_Witness ==
    /\ call.op \in EntryOps /\ call.outcome = "sl_invalid"
    /\ ~call.signal.none /\ call.signal.sl > call.signal.entry /\ call.signal.direction = 1
    /\ gw.positions = <<>> /\ eng.trades_today = 0


\* ------------------------------------------------------------------------
\* Claims about detect_order_blocks (specification SpecOB)
\* ------------------------------------------------------------------------
\* C22: a zone that was active and was removed by the mitigation of some bar
\* is not reported as the nearest order block of any later bar.
C22_MitigatedZoneNeverReported ==
    drv.mode = "order_blocks" =>
        /\ drv.ob_bull[Len(drv.ob_bull)] \notin drv.dropped_bull
        /\ drv.ob_bear[Len(drv.ob_bear)] \notin drv.dropped_bear


\* ------------------------------------------------------------------------
\* Claims about the diagnostic counters (specification SpecDiag)
\* ------------------------------------------------------------------------
\* The keys of diag that count rejections.
RejectionCounters ==
    {"no_h4_indicators", "no_h4_trend", "no_h4_slope", "no_ema21_slope", "no_pullback",
     "no_rsi", "no_candle", "no_sl_valid", "london_no_range", "london_wrong_hour",
     "london_no_break", "london_trend_filter", "smc_no_confluence"}

Increments(counters, c) == Len(SelectSeq(counters, LAMBDA k : k = c))

\* C23: an evaluation of get_signal that passes the minimum-length check and
\* returns no Signal increments some rejection counter, and no evaluation
\* increments a rejection counter more than once.
C23_RejectionCountedOnce ==
    (call.op = "get_signal_filters" /\ call.ret = "evaluated") =>
        /\ call.outcome = "none" => \E c \in RejectionCounters : Increments(call.diag, c) >= 1
        /\ \A c \in RejectionCounters : Increments(call.diag, c) <= 1


\* ------------------------------------------------------------------------
\* Claims about skipped cycles (specification SpecDrivers)
\* ------------------------------------------------------------------------
\* A pass of the real-time loop or of the backtest loop has just been made.
CycleStep == drv'.i = drv.i + 1

C25_DisconnectedCycleIsInert ==
    [][ (CycleStep /\ drv.mode = "realtime") =>
          /\ (drv'.outcome = "disconnected") =>
                (eng' = eng /\ gw' = gw /\ ~drv'.was_connected)
          /\ drv'.alerted <=> (drv.was_connected /\ drv'.outcome = "disconnected")
          /\ (Len(gw'.positions) > Len(gw.positions)) => drv'.was_connected ]_vars

\* A second consecutive disconnected cycle, with a position open and a trade
\* counted today: nothing was sent and nothing moved.
C25_Witness ==
    /\ drv.mode = "realtime" /\ drv.outcome = "disconnected" /\ drv.i >= 3
    /\ ~drv.alerted /\ ~drv.was_connected
    /\ gw.positions # <<>> /\ eng.trades_today = 1


\* C26: whatever the trade ledger does, a pass of the real-time loop never
\* takes the "except Exception" branch: run_cycle reaches its end and the cycle is
\* counted, a cycle that opens a trade also sends the trade alert that follows the
\* ledger row, and the loop is ready for the next cycle.
C26_SinkFailureNeverAbortsCycle ==
    [][ (CycleStep /\ drv.mode = "logged") =>
          /\ drv'.outcome # "cycle_error"
          /\ drv'.cycles = drv.cycles + 1
          /\ (Len(gw'.positions) > Len(gw.positions)) => drv'.trade_alert
          /\ drv'.pc = "loop" ]_vars


\* C27: a real-time cycle that does not move state["last_bar_time"] to a new
\* bar timestamp ends before the compliance gate and the signal generator (it is
\* a disconnected, insufficient-data or no-new-bar cycle), leaves the compliance
\* engine as it was and opens nothing; the timestamps only move forward, so each
\* bar is evaluated in one cycle at most, and that cycle opens one trade at most.
C27_OneEvaluationPerBar ==
    [][ (CycleStep /\ drv.mode = "realtime") =>
          /\ drv'.last_bar_time >= drv.last_bar_time
          /\ Len(gw'.positions) <= Len(gw.positions) + 1
          /\ (drv'.last_bar_time = drv.last_bar_time) =>
                /\ drv'.outcome \in {"disconnected", "insufficient_data", "no_new_bar"}
                /\ eng' = eng
                /\ Len(gw'.positions) <= Len(gw.positions)
                /\ Len(gw'.trade_history) = Len(gw.trade_history) ]_vars

\* A second poll of a bar that was evaluated without a trade: nothing is open,
\* the engine would allow an entry, and the bar is not evaluated again.
C27_Witness ==
    /\ drv.mode = "realtime" /\ drv.outcome = "no_new_bar" /\ drv.i >= 2
    /\ drv.last_bar_time = 1 /\ gw.positions = <<>>
    /\ eng.state = "NORMAL" /\ eng.trades_today = 0


\* C28: with the news filter enabled and fail_safe on, after a cycle whose
\* refresh() could not fetch the calendar, and after any cycle before the first
\* successful fetch, is_blocked() answered true and the cycle opened no trade.
C28_NewsFailSafeBlocks ==
    ( /\ drv.mode = "news" /\ drv.i > 0
      /\ drv.news.enabled /\ drv.news.fail_safe
      /\ (drv.fetch = "failed" \/ ~drv.ever_fetched) )
        => (drv.blocked /\ drv.outcome # "trades_opened")


\* The UTC date of a timestamp, counted in hours since day 0 (a naive timestamp
\* is read as UTC).
UtcDate(bar_time) ==
    LET offset == IF bar_time.tzinfo THEN bar_time.utcoffset ELSE 0
        hours == bar_time.date * 24 + bar_time.hour - offset
    IN  CHOOSE day \in -1..(MaxDay + 3) : day * 24 <= hours /\ hours < (day + 1) * 24

\* C29: advance_time with a timestamp whose UTC date is not current_day sets
\* trades_today, consec_losses and today_closed_pnl to 0, prev_eod_balance to the
\* balance passed, current_day to that date and the state to NORMAL unless it
\* was KILL_SWITCH; with a timestamp on current_day it changes no field.
C29_DayRollover ==
    [][ (call'.op = "advance_time") =>
          IF UtcDate(call'.bar_time) # eng.current_day
          THEN /\ eng'.trades_today = 0
               /\ eng'.consec_losses = 0
               /\ eng'.today_closed_pnl = 0
               /\ eng'.prev_eod_balance = call'.balance
               /\ eng'.current_day = UtcDate(call'.bar_time)
               /\ eng'.state = IF eng.state = "KILL_SWITCH" THEN "KILL_SWITCH" ELSE "NORMAL"
          ELSE eng' = eng ]_vars

\* A rollover by a timestamp whose local date is not its UTC date, with the
\* end-of-day balance taken from the call.
C29_Witness ==
    /\ call.op = "advance_time" /\ call.rolled
    /\ call.bar_time.tzinfo /\ call.bar_time.date # eng.current_day
    /\ eng.current_day = UtcDate(call.bar_time)
    /\ eng.prev_eod_balance = call.balance /\ eng.state = "KILL_SWITCH"


\* C30: a rule_check that leaves the state WEEKLY_PAUSE returns no reason
\* derived from the state (only MAX_TRADES_DAY or SPREAD_HIGH, and "" when
\* neither applies), get_risk_percent() is then 0.25 %, and a day rollover
\* (advance_time, or the wall-clock day check that opens rule_check) takes an
\* engine in WEEKLY_PAUSE to NORMAL.
C30_WeeklyPauseThrottles ==
    [][ /\ (call'.op = "rule_check" /\ eng'.state = "WEEKLY_PAUSE") =>
              /\ call'.ret \in {"", "MAX_TRADES_DAY", "SPREAD_HIGH"}
              /\ (eng'.trades_today < max_trades_per_day /\ call'.spread <= max_spread)
                    => call'.ret = ""
              /\ get_risk_percent(eng') = 250
        /\ (call'.op = "get_risk_percent" /\ eng.state = "WEEKLY_PAUSE") => call'.risk = 250
        /\ (eng.state = "WEEKLY_PAUSE") =>
              /\ (call'.op = "advance_time" /\ call'.rolled) => eng'.state = "NORMAL"
              /\ \A d \in (1..(MaxDay + 1)) \ {eng.current_day}, b \in Balances :
                    check_new_day_realtime(eng, d, b).state = "NORMAL" ]_vars

\* A rule_check that left WEEKLY_PAUSE and allowed the trade, at a drawdown
\* from the peak beyond the second tier of the risk scale.
C30_Witness ==
    /\ call.op = "rule_check" /\ eng.state = "WEEKLY_PAUSE" /\ call.ret = ""
    /\ PeakDdAtLeast(eng.high_water_mark, eng.last_equity, dd_tier2_pct)
    /\ get_risk_percent(eng) = 250


\* The PARTIAL_1R rows of the ledger for one ticket.
PartialRows(g, ticket) ==
    SelectSeq(g.trade_history, LAMBDA t : t.ticket = ticket /\ t.reason = "PARTIAL_1R")

\* C31: the ledger holds at most one partial close per position; and whenever
\* the partial-close step of check_sl_tp fires on an open position, partial
\* close was enabled and not yet applied and the bar reached entry +/-
\* partial_close_r times the original stop distance, the new ledger row is at
\* that price for the closed size, closed and remaining size are both positive
\* and add up to the size before, the stop is entry +/- 1 pip on the profit
\* side, and be_activated and partial_closed are both set.
C31_PartialCloseOnce ==
    /\ \A k \in 1..Len(gw.trade_history) :
          Len(PartialRows(gw, gw.trade_history[k].ticket)) <= 1
    /\ \A k \in 1..Len(gw.positions), bar \in PosBars :
          LET pos == gw.positions[k]
              pc == partial_close_step(gw, pos, bar, cfg, wall_day)
              row == pc.gw.trade_history[Len(pc.gw.trade_history)]
          IN  (pc.gw # gw \/ pc.pos # pos) =>
                /\ cfg.partial_close_enabled /\ ~pos.partial_closed
                /\ IF pos.direction > 0
                   THEN bar.high * 10 >= pos.entry * 10 + pos.sl_pips * cfg.partial_close_r
                   ELSE bar.low * 10 <= pos.entry * 10 - pos.sl_pips * cfg.partial_close_r
                /\ Len(pc.gw.trade_history) = Len(gw.trade_history) + 1
                /\ row.reason = "PARTIAL_1R" /\ row.ticket = pos.ticket
                /\ row.exit * 10 = pos.entry * 10
                                     + pos.direction * pos.sl_pips * cfg.partial_close_r
                /\ row.lots > 0 /\ pc.pos.lots > 0
                /\ row.lots + pc.pos.lots = pos.lots
                /\ pc.pos.sl = pos.entry + pos.direction * 10
                /\ pc.pos.be_activated /\ pc.pos.partial_closed

\* A position that was partially closed on one bar and is still open, with the
\* bars after it free to reach the partial-close level again.
C31_Witness ==
    /\ drv.mode = "position" /\ drv.outcome = "check_sl_tp"
    /\ Len(gw.positions) = 1
    /\ gw.positions[1].partial_closed /\ gw.positions[1].be_activated
    /\ Len(PartialRows(gw, gw.positions[1].ticket)) = 1
    /\ gw.positions[1].lots + gw.trade_history[1].lots = 3


\* C32: at the trailing step of check_sl_tp (after the partial-close and
\* breakeven steps of the same bar) the stop becomes the candidate, bar high -
\* ATR * trailing_atr_mult for a long and bar low + ATR * trailing_atr_mult for
\* a short, exactly when be_activated is true at that point, trailing is enabled,
\* ATR > 0, the bar's extreme reached entry +/- trailing_start_r times the
\* original stop distance and the candidate is strictly better than the stop
\* and strictly on the profit side of entry; otherwise the stop stays, and no
\* other field of the position changes.
C32_TrailingStep ==
    \A k \in 1..Len(gw.positions), bar \in PosBars :
        LET pos0 == gw.positions[k]
            pos == breakeven_step(partial_close_step(gw, pos0, bar, cfg, wall_day).pos,
                                  bar, cfg)
            candidate10 == IF pos.direction > 0
                           THEN bar.high * 10 - bar.atr * trailing_atr_mult
                           ELSE bar.low * 10 + bar.atr * trailing_atr_mult
            reached == IF pos.direction > 0
                       THEN bar.high * 10 >= pos.entry * 10 + pos.sl_pips * trailing_start_r
                       ELSE bar.low * 10 <= pos.entry * 10 - pos.sl_pips * trailing_start_r
            better == IF pos.direction > 0
                      THEN candidate10 > pos.sl * 10 /\ candidate10 > pos.entry * 10
                      ELSE candidate10 < pos.sl * 10 /\ candidate10 < pos.entry * 10
            after == trailing_step(pos, bar, cfg)
        IN  /\ [after EXCEPT !.sl = pos.sl] = pos
            /\ IF pos.be_activated /\ cfg.trailing_enabled /\ bar.atr > 0 /\ reached /\ better
               THEN after.sl * 10 = candidate10
               ELSE after.sl = pos.sl

\* A long position whose stop was trailed above entry + 1 pip.
C32_Witness ==
    /\ drv.mode = "position" /\ drv.outcome = "check_sl_tp"
    /\ Len(gw.positions) = 1
    /\ gw.positions[1].direction > 0 /\ gw.positions[1].be_activated
    /\ gw.positions[1].sl > gw.positions[1].entry + pip_size


\* The positions not yet at breakeven and the bars on which the partial-close
\* or the breakeven step activates it while the bar also trades back through
\* entry +/- 1 pip.
SameBarCases ==
    { <<k, bar>> \in (1..Len(gw.positions)) \X PosBars :
        LET pos == gw.positions[k]
            pos1 == breakeven_step(partial_close_step(gw, pos, bar, cfg, wall_day).pos,
                                   bar, cfg)
        IN  /\ ~pos.be_activated /\ pos1.be_activated
            /\ IF pos.direction > 0 THEN bar.low <= BreakevenStop(pos)
               ELSE bar.high >= BreakevenStop(pos) }

\* The ledger row check_sl_tp wrote last.
LastRow(g) == g.trade_history[Len(g.trade_history)]

\* C33 as stated: when breakeven (or the partial close) activates on a bar
\* whose low <= entry + 1 pip (long; high >= entry - 1 pip, short), the position
\* is closed on that bar at entry +/- 1 pip with reason BE_HIT.
C33_ClosedAtBreakevenStop ==
    \A kb \in SameBarCases :
        LET pos == gw.positions[kb[1]]
            after == check_sl_tp(gw, kb[2], cfg, wall_day)
        IN  /\ ~HasTicket(after, pos.ticket)
            /\ LastRow(after).ticket = pos.ticket
            /\ LastRow(after).exit = BreakevenStop(pos)
            /\ LastRow(after).reason = "BE_HIT"

\* C33 amended: on such a bar the position is closed on that bar at the stop
\* the earlier steps of the bar left, never held and never closed at the old
\* stop: at entry +/- 1 pip with reason BE_HIT, or, when the trailing step of
\* the same bar moved the stop further, at the trailed stop with BE_HIT if it
\* is less than 3 pips from entry and TRAIL_HIT if it is more than 3 pips from
\* entry.
C33_ClosedAtUpdatedStop ==
    \A kb \in SameBarCases :
        LET pos == gw.positions[kb[1]]
            after == check_sl_tp(gw, kb[2], cfg, wall_day)
            row == LastRow(after)
        IN  /\ ~HasTicket(after, pos.ticket)
            /\ row.ticket = pos.ticket
            /\ row.exit # pos.sl
            /\ \/ row.exit = BreakevenStop(pos) /\ row.reason = "BE_HIT"
               \/ /\ cfg.trailing_enabled
                  /\ row.exit = TrailedStop(pos, kb[2])
                  /\ (row.exit - BreakevenStop(pos)) * pos.direction > 0
                  /\ row.reason \in {"BE_HIT", "TRAIL_HIT"}
                  /\ (row.exit - pos.entry) * pos.direction < 3 * pip_size
                        => row.reason = "BE_HIT"
                  /\ (row.exit - pos.entry) * pos.direction > 3 * pip_size
                        => row.reason = "TRAIL_HIT"

\* An open position with a bar that activates breakeven and closes it at
\* entry +/- 1 pip, and one with a bar that closes it at the trailed stop.
C33_Witness ==
    /\ \E kb \in SameBarCases :
          LastRow(check_sl_tp(gw, kb[2], cfg, wall_day)).exit
              = BreakevenStop(gw.positions[kb[1]])
    /\ \E kb \in SameBarCases :
          LastRow(check_sl_tp(gw, kb[2], cfg, wall_day)).exit
              # BreakevenStop(gw.positions[kb[1]])


\* C34: every close check_sl_tp records at the stop price has reason SL_HIT
\* if be_activated is false at the exit check, BE_HIT if it is true and the
\* stop is less than 3 pips from entry, TRAIL_HIT if it is true and the stop
\* is 3 or more pips from entry; every close at the target has reason TP_HIT.
C34_ExitTagging ==
    \A k \in 1..Len(gw.positions), bar \in PosBars :
        LET pos0 == gw.positions[k]
            pos == trailing_step(
                       breakeven_step(partial_close_step(gw, pos0, bar, cfg, wall_day).pos,
                                      bar, cfg), bar, cfg)
            after == check_sl_tp(gw, bar, cfg, wall_day)
            row == LastRow(after)
            dist == (pos.sl - pos.entry) * pos.direction
        IN  ~HasTicket(after, pos0.ticket) =>
              /\ row.ticket = pos0.ticket
              /\ row.exit \in {pos.sl, pos.tp}
              /\ row.exit = pos.tp => row.reason = "TP_HIT"
              /\ row.exit = pos.sl =>
                   row.reason = IF ~pos.be_activated THEN "SL_HIT"
                                ELSE IF dist < 3 * pip_size /\ dist > -3 * pip_size
                                     THEN "BE_HIT" ELSE "TRAIL_HIT"


\* "body >= 30% of its range" for the middle candle.
BodyAtLeast30Pct(mid) ==
    Dist(mid.close, mid.open) * 10 >= (mid.high - mid.low) * 3

\* C35: for every index i >= 2 detect_fvg flags a bullish gap at i exactly
\* when low[i] > high[i-2] and the body of candle i-1 is >= 30% of its range,
\* with bounds [high[i-2], low[i]]; a bearish gap exactly when
\* high[i] < low[i-2] and the same body condition holds, with bounds
\* [low[i], high[i-2]]; indices 0 and 1 are never flagged.
C35_FairValueGaps ==
    drv.mode = "fvg" =>
      \A p \in 1..Len(drv.bars) :
          LET row == drv.fvg[p]
              bars == drv.bars
          IN  IF p <= 2 THEN ~row.fvg_bull /\ ~row.fvg_bear
              ELSE /\ row.fvg_bull <=> (bars[p].low > bars[p - 2].high
                                          /\ BodyAtLeast30Pct(bars[p - 1]))
                   /\ row.fvg_bull => /\ row.fvg_bull_bot = bars[p - 2].high
                                      /\ row.fvg_bull_top = bars[p].low
                   /\ row.fvg_bear <=> (bars[p].high < bars[p - 2].low
                                          /\ BodyAtLeast30Pct(bars[p - 1]))
                   /\ row.fvg_bear => /\ row.fvg_bear_bot = bars[p].low
                                      /\ row.fvg_bear_top = bars[p - 2].high


\* C36: in a backtest bar and in a real-time cycle alike, on_trade_opened is
\* called once when open_trade returned success (a ticket was issued) and not
\* at all when open_trade failed or the cycle ended before submission:
\* trades_today, which only the hook raises and only a day rollover earlier in
\* the cycle resets, goes up by one from its old value or from the reset, and
\* never goes up without a ticket.
C36_HookOncePerOpen ==
    [][ CycleStep =>
          LET submitted == gw'.next_ticket - gw.next_ticket
          IN  /\ submitted \in {0, 1}
              /\ submitted = 1 <=> (\E k \in 1..Len(gw'.positions) :
                                       gw'.positions[k].ticket = gw.next_ticket)
              /\ submitted = 0 => eng'.trades_today <= eng.trades_today
              /\ submitted = 1 => eng'.trades_today \in {1, eng.trades_today + 1} ]_vars

\* A live cycle whose order the terminal filled, counted once.
C36_Witness ==
    /\ is_live(gw) /\ drv.outcome = "trades_opened"
    /\ Len(gw.positions) = 1 /\ eng.trades_today = 1


\* C37: in a real-time cycle that reaches manage_open_positions, on either
\* gateway, every open position whose favorable move (bid above entry for a
\* long, ask below entry for a short) has reached breakeven_r times its
\* original stop distance, with breakeven enabled and not yet active, leaves
\* the cycle with breakeven active and its stop at entry +/- 1 pip (or beyond,
\* when the trailing step that follows moved it on); and a position that was
\* at breakeven stays so.
C37_BreakevenOnEveryGateway ==
    [][ (/\ CycleStep /\ drv.mode = "realtime"
         /\ drv'.outcome \notin {"disconnected", "insufficient_data"}) =>
          \A k \in 1..Len(gw.positions) :
              LET pos == gw.positions[k]
                  current == IF pos.direction > 0 THEN gw'.last_bid ELSE gw'.last_ask
                  move == (current - pos.entry) * pos.direction
                  stop_distance == Dist(pos.entry, pos.sl)
              IN  HasTicket(gw', pos.ticket) =>
                    /\ (/\ cfg.breakeven_enabled /\ ~pos.be_activated
                        /\ move * 10 >= breakeven_r * stop_distance) =>
                          /\ PosOf(gw', pos.ticket).be_activated
                          /\ (PosOf(gw', pos.ticket).sl - BreakevenStop(pos))
                                * pos.direction >= 0
                    /\ pos.be_activated => PosOf(gw', pos.ticket).be_activated ]_vars


\* C38: a position under check_sl_tp that has be_activated set has its stop
\* strictly on the profit side of entry (sl > entry for a long, sl < entry for
\* a short), and every ledger row closed as BE_HIT or TRAIL_HIT was closed
\* beyond entry with a strictly positive P&L.
C38_BreakevenStopInProfit ==
    /\ \A k \in 1..Len(gw.positions) :
          gw.positions[k].be_activated =>
             (gw.positions[k].sl - gw.positions[k].entry) * gw.positions[k].direction > 0
    /\ \A k \in 1..Len(gw.trade_history) :
          gw.trade_history[k].reason \in {"BE_HIT", "TRAIL_HIT"} =>
             /\ (gw.trade_history[k].exit - gw.trade_history[k].entry)
                   * gw.trade_history[k].direction > 0
             /\ gw.trade_history[k].pnl > 0

\* The remainder of a partially closed 0.03-lot short stopped out one pip
\* beyond entry: the smallest profit a breakeven exit can make.
C38_Witness ==
    /\ drv.mode = "position" /\ gw.positions = <<>>
    /\ Len(gw.trade_history) = 2
    /\ gw.trade_history[1].reason = "PARTIAL_1R"
    /\ gw.trade_history[2].reason = "BE_HIT"
    /\ gw.trade_history[2].direction < 0
    /\ gw.trade_history[2].exit = gw.trade_history[2].entry - pip_size
    /\ gw.trade_history[2].pnl > 0


\* C39: over any sequence of rule_check, on_trade_closed and advance_time
\* calls, high_water_mark never decreases, is never below initial_balance,
\* and after a rule_check or an on_trade_closed is at least the balance passed
\* to that call.
C39_HighWaterMark ==
    [][ /\ eng'.high_water_mark >= eng.high_water_mark
        /\ eng'.high_water_mark >= initial_balance
        /\ call'.op \in {"rule_check", "on_trade_closed"} =>
              eng'.high_water_mark >= call'.balance ]_vars

\* A rule_check with a balance below the mark an earlier call had raised.
C39_Witness ==
    /\ call.op = "rule_check"
    /\ call.balance < eng.high_water_mark
    /\ eng.high_water_mark > initial_balance

====
